---- MODULE Spec2Model ----
(***************************************************************************)
(* Order-book replication of the Binance liquidity monitor.                *)
(*                                                                         *)
(* OrderBookManager keeps one replica per "SYMBOL:type" key, created from  *)
(* a REST snapshot (initializeOrderBook) and mutated by streaming depth    *)
(* diffs (applyUpdate), with distinct continuity rules for spot and for    *)
(* futures.  Prices and quantities are whole numbers of ticks: the decimal *)
(* strings of the wire are tokens, parseFloat maps a token to its number   *)
(* of ticks or to NaN.                                                     *)
(*                                                                         *)
(* MetricsCalculator reads the replicas (getOrderBook) in the handler of   *)
(* the 'orderbook:update' event and writes the latest metrics and the time *)
(* series to Redis.  Time is Date.now(), in milliseconds.                  *)
(***************************************************************************)
EXTENDS Integers, Sequences, FiniteSets, TLC

VARIABLES
    orderBooks,           \* this.orderBooks: key -> replica (a Map: partial function)
    futuresFailureCount,  \* this.futuresFailureCount: key -> soft-failure count (a Map)
    last,                 \* the last call made on the manager: its ids, its return site and value
    noted,                \* history: what the running specification notes of the last diff
    rejects,              \* history: per key, continuity rejections since the last applied diff
    now,                  \* Date.now(), in milliseconds
    lastSaveTime,         \* metricsCalculator.lastSaveTime: key -> the lastSave object it holds
    lastSave,             \* the lastSave objects { core, advanced }, by identity
    tasks,                \* the running handlers of 'orderbook:update', by slot
    redis,                \* the last write of each kind to Redis, and the write of the last step
    websocketService,     \* the fields of the WebSocketService instance
    sockets,              \* the WebSocket objects, each with the closure of its subscribeOrderBook call
    waits,                \* the subscribeOrderBook calls suspended in waitForInitialization
    health,               \* the health-check timer of the server: the position of its tick
    binanceAPI,           \* the fields of the BinanceAPI instance
    requests              \* the HTTP requests of BinanceAPI that await their response

managerVars == <<orderBooks, futuresFailureCount, last, rejects>>

metricsVars == <<lastSaveTime, lastSave, tasks, redis>>

serviceVars == <<websocketService, sockets, waits, health>>

apiVars == <<binanceAPI, requests>>

vars == <<orderBooks, futuresFailureCount, last, noted, rejects, now,
          lastSaveTime, lastSave, tasks, redis,
          websocketService, sockets, waits, health, binanceAPI, requests>>

----------------------------------------------------------------------------
(* Bounds of the model.                                                    *)

\* Largest update id a snapshot or a diff carries.
MaxId == 3

\* Largest update id the level-mutation specification lets a diff carry
\* (its diffs are contiguous, so this is the number of diffs it applies).
MaxLevelId == 2

\* Stand-ins for the 500 and 300 levels of applyUpdate's maxLevels: the
\* truncation is the same comparison and slice at any size.
MaxLevelsMajor == 2
MaxLevelsOther == 1

----------------------------------------------------------------------------
(* Values.                                                                 *)

\* parseFloat's NaN, and the value of a field the diff does not carry.
NaN == -999999
Undefined == -1

\* Date.now() when the process starts, far beyond every interval.
Epoch == 1000000

\* A decimal string of the wire holding n ticks, and a string that is no number.
Str(n) == [txt |-> "num", val |-> n]
Junk == [txt |-> "junk", val |-> 0]

ParseFloat(s) == IF s.txt = "num" THEN s.val ELSE NaN

IsNaN(x) == x = NaN

Abs(x) == IF x < 0 THEN 0 - x ELSE x

Key(symbol, type) == <<symbol, type>>

----------------------------------------------------------------------------
(* Array helpers of updateSide and initializeOrderBook.                    *)

\* The comparator of Array.prototype.sort: bids descending, asks ascending.
Compare(a, b, sideType) ==
    IF sideType = "bid" THEN b[1] - a[1] ELSE a[1] - b[1]

\* Array.prototype.sort with that comparator (a stable sort): element i goes
\* before element j when it compares lower, or equal and i comes first.
Sort(side, sideType) ==
    LET n == Len(side)
        Before(i, j) ==
            \/ Compare(side[i], side[j], sideType) < 0
            \/ Compare(side[i], side[j], sideType) = 0 /\ i < j
        rank(i) == Cardinality({j \in 1..n : Before(j, i)})
    IN  [r \in 1..n |-> side[CHOOSE i \in 1..n : rank(i) = r - 1]]

\* A findIndex that never matches, as when the price is compared as a string.
FindIndexNoMatch(side, price) == 0

\* side.findIndex(([p]) => Math.abs(p - price) < 1e-10); 0 stands for -1.
\* Prices are whole ticks and 1e-10 is less than a tick: the tolerance
\* admits a difference of zero ticks only.
FindIndex(side, price) ==
    LET hits == {i \in 1..Len(side) : Abs(side[i][1] - price) < 1}
    IN  IF hits = {} THEN 0 ELSE CHOOSE i \in hits : \A j \in hits : i <= j

\* side.splice(index, 1)
Splice(side, index) ==
    [i \in 1..(Len(side) - 1) |-> IF i < index THEN side[i] ELSE side[i + 1]]

\* A slice that lets one level too many through.
SliceOffByOne(side, n) == IF Len(side) > n + 1 THEN SubSeq(side, 1, n) ELSE side

\* array.slice(0, n)
Slice(side, n) == IF Len(side) > n THEN SubSeq(side, 1, n) ELSE side

\* Math.abs(price - bestPrice) / bestPrice > 0.50, for a positive bestPrice.
PriceDeviationTooLarge(price, bestPrice) ==
    2 * Abs(price - bestPrice) > bestPrice

\* isNaN(price) || isNaN(qty) || price <= 0 || qty < 0
InvalidEntry(price, qty) ==
    IsNaN(price) \/ IsNaN(qty) \/ price <= 0 \/ qty < 0

\* An iteration that takes a quantity of zero for a skip, not a removal.
UpdateLevelKeepsZero(side, entry, sideType) ==
    LET price == ParseFloat(entry[1])
        qty == ParseFloat(entry[2])
    IN  IF InvalidEntry(price, qty) THEN side
        ELSE IF Len(side) > 0 /\ PriceDeviationTooLarge(price, side[1][1]) THEN side
        ELSE LET index == FindIndex(side, price)
             IN  IF qty = 0 THEN side
                 ELSE IF index # 0
                      THEN [side EXCEPT ![index] = <<side[index][1], qty>>]
                      ELSE Sort(Append(side, <<price, qty>>), sideType)

\* One iteration of updateSide's loop.
UpdateLevel(side, entry, sideType) ==
    LET price == ParseFloat(entry[1])
        qty == ParseFloat(entry[2])
    IN  IF InvalidEntry(price, qty) THEN side
        ELSE IF Len(side) > 0 /\ PriceDeviationTooLarge(price, side[1][1]) THEN side
        ELSE LET index == FindIndex(side, price)
             IN  IF qty = 0
                 THEN IF index # 0 THEN Splice(side, index) ELSE side
                 ELSE IF index # 0
                      THEN [side EXCEPT ![index] = <<side[index][1], qty>>]
                      ELSE Sort(Append(side, <<price, qty>>), sideType)

\* updateSide(side, updates, sideType, symbol)
RECURSIVE updateSide(_, _, _)
updateSide(side, updates, sideType) ==
    IF updates = <<>> THEN side
    ELSE updateSide(UpdateLevel(side, Head(updates), sideType), Tail(updates), sideType)

\* snapshot.bids.map(([price, qty]) => [parseFloat(price), parseFloat(qty)])
ParseLevels(levels) ==
    [i \in 1..Len(levels) |-> <<ParseFloat(levels[i][1]), ParseFloat(levels[i][2])>>]

\* const maxLevels = (symbol === 'BTCUSDT' || symbol === 'ETHUSDT') ? 500 : 300
maxLevels(symbol) ==
    IF symbol = "BTCUSDT" \/ symbol = "ETHUSDT" THEN MaxLevelsMajor ELSE MaxLevelsOther

----------------------------------------------------------------------------
(* applyUpdate's validation.                                               *)

\* Variants of the rules below, each with one plausible slip.
FuturesTooOldOffByOne(u, L) == u < L - 1
IsCoveringExact(U, u, L) == U = L + 1 /\ u >= L + 1
SpotTooOldStrict(u, L) == u < L
SpotGapOffByOne(U, L) == U > L + 2

\* futures rule 1: lastUpdateIdInUpdate < currentLastUpdateId
FuturesTooOld(u, L) == u < L

\* futures first event: firstUpdateId <= L + 1 && lastUpdateIdInUpdate >= L + 1
IsCovering(U, u, L) == U <= L + 1 /\ u >= L + 1

\* futures later events: prevLastUpdateId !== undefined && prevLastUpdateId !== L
PuBroken(pu, L) == pu # Undefined /\ pu # L

\* failCount >= 3
FailLimitReached(failCount) == failCount >= 3

\* spot rule 1: lastUpdateIdInUpdate <= currentLastUpdateId
SpotTooOld(u, L) == u <= L

\* spot rule 2: firstUpdateId > currentLastUpdateId + 1
SpotGap(U, L) == U > L + 1

\* map.get(key) || 0
CountOf(map, key) == IF key \in DOMAIN map THEN map[key] ELSE 0

\* this.futuresFailureCount.get(key) || 0
FailCount(key) == CountOf(futuresFailureCount, key)

\* Map.prototype.delete and Map.prototype.set
MapDelete(map, key) == [k \in DOMAIN map \ {key} |-> map[k]]
MapSet(map, key, value) == [k \in DOMAIN map \cup {key} |-> IF k = key THEN value ELSE map[k]]

\* Outcome with the soft-failure counter applied to the first event too.
OutcomeCountsFirst(type, orderBook, failCount, update) ==
    LET L == orderBook.lastUpdateId
    IN  IF orderBook.needsResync THEN "ignored"
        ELSE IF type = "futures"
        THEN IF FuturesTooOld(update.u, L) THEN "stale"
             ELSE IF ~orderBook.hasReceivedUpdate
                  THEN IF IsCovering(update.U, update.u, L) THEN "applied"
                       ELSE IF FailLimitReached(failCount + 1) THEN "resync" ELSE "softFail"
                  ELSE IF PuBroken(update.pu, L)
                       THEN IF FailLimitReached(failCount + 1) THEN "resync" ELSE "softFail"
                       ELSE "applied"
        ELSE IF SpotTooOld(update.u, L) THEN "stale"
             ELSE IF SpotGap(update.U, L) THEN "gap"
             ELSE "applied"

\* Outcome without the test of needsResync.
OutcomeIgnoresFlag(type, orderBook, failCount, update) ==
    LET L == orderBook.lastUpdateId
    IN  IF type = "futures"
        THEN IF FuturesTooOld(update.u, L) THEN "stale"
             ELSE IF ~orderBook.hasReceivedUpdate
                  THEN IF IsCovering(update.U, update.u, L) THEN "applied" ELSE "notCovering"
                  ELSE IF PuBroken(update.pu, L)
                       THEN IF FailLimitReached(failCount + 1) THEN "resync" ELSE "softFail"
                       ELSE "applied"
        ELSE IF SpotTooOld(update.u, L) THEN "stale"
             ELSE IF SpotGap(update.U, L) THEN "gap"
             ELSE "applied"

\* The return site applyUpdate reaches for this replica and this diff.
Outcome(type, orderBook, failCount, update) ==
    LET L == orderBook.lastUpdateId
    IN  IF orderBook.needsResync THEN "ignored"
        ELSE IF type = "futures"
        THEN IF FuturesTooOld(update.u, L) THEN "stale"
             ELSE IF ~orderBook.hasReceivedUpdate
                  THEN IF IsCovering(update.U, update.u, L) THEN "applied" ELSE "notCovering"
                  ELSE IF PuBroken(update.pu, L)
                       THEN IF FailLimitReached(failCount + 1) THEN "resync" ELSE "softFail"
                       ELSE "applied"
        ELSE IF SpotTooOld(update.u, L) THEN "stale"
             ELSE IF SpotGap(update.U, L) THEN "gap"
             ELSE "applied"

\* The two sides after updateSide, before the truncation.
UpdatedSides(orderBook, update) ==
    [bids |-> IF Len(update.b) > 0
              THEN updateSide(orderBook.bids, update.b, "bid") ELSE orderBook.bids,
     asks |-> IF Len(update.a) > 0
              THEN updateSide(orderBook.asks, update.a, "ask") ELSE orderBook.asks]

\* Whether applying the diff takes one of the two slice branches.
Truncates(symbol, orderBook, update) ==
    LET sides == UpdatedSides(orderBook, update)
    IN  Len(sides.bids) > maxLevels(symbol) \/ Len(sides.asks) > maxLevels(symbol)

\* AppliedBook without the advance of lastUpdateId.
AppliedBookKeepsId(symbol, orderBook, update) ==
    LET sides == UpdatedSides(orderBook, update)
    IN  [orderBook EXCEPT !.bids = Slice(sides.bids, maxLevels(symbol)),
                          !.asks = Slice(sides.asks, maxLevels(symbol)),
                          !.timestamp = now,
                          !.hasReceivedUpdate = TRUE]

\* The replica after the diff's levels are applied.
AppliedBook(symbol, orderBook, update) ==
    LET sides == UpdatedSides(orderBook, update)
    IN  [orderBook EXCEPT !.bids = Slice(sides.bids, maxLevels(symbol)),
                          !.asks = Slice(sides.asks, maxLevels(symbol)),
                          !.lastUpdateId = update.u,
                          !.timestamp = now,
                          !.hasReceivedUpdate = TRUE]

\* The soft-failure counters after a futures diff reached the given return site.
CountersAfter(key, type, orderBook, update, outcome) ==
    IF type # "futures" THEN futuresFailureCount
    ELSE IF outcome = "softFail" THEN MapSet(futuresFailureCount, key, FailCount(key) + 1)
    ELSE IF outcome = "resync" THEN MapDelete(futuresFailureCount, key)
    ELSE IF outcome = "applied" /\ (~orderBook.hasReceivedUpdate \/ update.pu # Undefined)
         THEN MapDelete(futuresFailureCount, key)
    ELSE futuresFailureCount

----------------------------------------------------------------------------
(* The operations.                                                         *)

NoCall == [op |-> "none", key |-> <<"", "">>, U |-> 0, u |-> 0, pu |-> Undefined,
           outcome |-> "none", truncated |-> FALSE, ret |-> FALSE]

Call(op, key, outcome, ret) ==
    [NoCall EXCEPT !.op = op, !.key = key, !.outcome = outcome, !.ret = ret]

\* An initializeOrderBook that keeps the order of the snapshot's arrays.
initializeOrderBookUnsorted(symbol, type, snapshot) ==
    LET key == Key(symbol, type)
        orderBook == [bids |-> ParseLevels(snapshot.bids),
                      asks |-> ParseLevels(snapshot.asks),
                      lastUpdateId |-> snapshot.lastUpdateId,
                      needsResync |-> FALSE,
                      timestamp |-> now,
                      hasReceivedUpdate |-> FALSE]
    IN  /\ orderBooks' = MapSet(orderBooks, key, orderBook)
        /\ rejects' = MapSet(rejects, key, 0)
        /\ last' = Call("initializeOrderBook", key, "initialized", TRUE)
        /\ UNCHANGED futuresFailureCount

\* initializeOrderBook(symbol, type, snapshot)
initializeOrderBook(symbol, type, snapshot) ==
    LET key == Key(symbol, type)
        orderBook == [bids |-> Sort(ParseLevels(snapshot.bids), "bid"),
                      asks |-> Sort(ParseLevels(snapshot.asks), "ask"),
                      lastUpdateId |-> snapshot.lastUpdateId,
                      needsResync |-> FALSE,
                      timestamp |-> now,
                      hasReceivedUpdate |-> FALSE]
    IN  /\ orderBooks' = MapSet(orderBooks, key, orderBook)
        /\ rejects' = MapSet(rejects, key, 0)
        /\ last' = Call("initializeOrderBook", key, "initialized", TRUE)
        /\ UNCHANGED futuresFailureCount

\* applyUpdate(symbol, type, update)
applyUpdate(symbol, type, update) ==
    LET key == Key(symbol, type)
        call == [op |-> "applyUpdate", key |-> key, U |-> update.U, u |-> update.u,
                 pu |-> update.pu]
    IN  IF key \notin DOMAIN orderBooks
        THEN /\ last' = call @@ [outcome |-> "missing", truncated |-> FALSE, ret |-> FALSE]
             /\ UNCHANGED <<orderBooks, futuresFailureCount, rejects>>
        ELSE LET orderBook == orderBooks[key]
                 outcome == Outcome(type, orderBook, FailCount(key), update)
             IN  /\ orderBooks' =
                        [orderBooks EXCEPT ![key] =
                            IF outcome = "applied" THEN AppliedBook(symbol, orderBook, update)
                            ELSE IF outcome \in {"gap", "resync"}
                                 THEN [orderBook EXCEPT !.needsResync = TRUE]
                            ELSE orderBook]
                 /\ futuresFailureCount' = CountersAfter(key, type, orderBook, update, outcome)
                 /\ rejects' =
                        [rejects EXCEPT ![key] =
                            IF outcome = "applied" THEN 0
                            ELSE IF outcome \in {"softFail", "resync"} THEN @ + 1
                            ELSE @]
                 /\ last' = call @@ [outcome |-> outcome,
                                      truncated |-> (outcome = "applied"
                                                     /\ Truncates(symbol, orderBook, update)),
                                      ret |-> (outcome = "applied")]

\* markOutOfSync(symbol, type)
markOutOfSync(symbol, type) ==
    LET key == Key(symbol, type)
    IN  /\ orderBooks' = IF key \in DOMAIN orderBooks
                         THEN [orderBooks EXCEPT ![key].needsResync = TRUE]
                         ELSE orderBooks
        /\ last' = Call("markOutOfSync", key, "marked", FALSE)
        /\ UNCHANGED <<futuresFailureCount, rejects>>

\* clearOrderBook(symbol, type)
clearOrderBook(symbol, type) ==
    LET key == Key(symbol, type)
    IN  /\ orderBooks' = MapDelete(orderBooks, key)
        /\ futuresFailureCount' = MapDelete(futuresFailureCount, key)
        /\ rejects' = MapDelete(rejects, key)
        /\ last' = Call("clearOrderBook", key, "cleared", FALSE)

----------------------------------------------------------------------------
(* The callers' steps.  A run follows one pair at a time: every access of  *)
(* the manager goes through this.orderBooks.get(key), so a second pair     *)
(* would only multiply the states of the first.                            *)

Nothing == [b |-> <<>>, a |-> <<>>]

\* The levels the diff carries.
Levels(key, update) == [b |-> update.b, a |-> update.a]

Initialize(keys, snapshots) ==
    \E key \in keys, snapshot \in snapshots :
        /\ DOMAIN orderBooks \subseteq {key}
        /\ initializeOrderBook(key[1], key[2], snapshot)
        /\ noted' = Nothing
        /\ UNCHANGED <<now, metricsVars, serviceVars, apiVars>>

MarkOutOfSync(keys) ==
    \E key \in keys :
        /\ markOutOfSync(key[1], key[2])
        /\ noted' = Nothing
        /\ UNCHANGED <<now, metricsVars, serviceVars, apiVars>>

ClearOrderBook(keys) ==
    \E key \in keys :
        /\ clearOrderBook(key[1], key[2])
        /\ noted' = Nothing
        /\ UNCHANGED <<now, metricsVars, serviceVars, apiVars>>

\* The BinanceAPI instance after its constructor: isBlocked = false,
\* rateLimitPauseUntil = null (0 here: both are falsy in the test of
\* canMakeRequest).
NoApi == [isBlocked |-> FALSE, rateLimitPauseUntil |-> 0]

\* The WebSocketService constructor: empty maps, no connection attempt.
NoService ==
    [connections |-> <<>>, pingTimers |-> <<>>, failedSubs |-> <<>>,
     subscriptionStatus |-> <<>>, connectionAttempts |-> <<>>, resyncInProgress |-> <<>>]

\* The timers between two ticks of the health check: did lists what the last
\* tick did, at and autoAt are the times the two timers fired last.
NoDeeds == [retry |-> <<>>, neverAlive |-> <<>>, stall |-> <<>>, resync |-> <<>>,
            unsubscribe |-> <<>>]

NoTick == [pc |-> "idle", targets |-> <<>>, key |-> <<"", "">>, scanned |-> <<>>,
           did |-> NoDeeds, at |-> Epoch, autoAt |-> Epoch]

\* No write to Redis yet; -1 stands for a time that is not there.
NoWrites == [op |-> "none", core |-> -1]

Init ==
    /\ orderBooks = <<>>
    /\ futuresFailureCount = <<>>
    /\ rejects = <<>>
    /\ last = NoCall
    /\ noted = Nothing
    /\ now = Epoch
    /\ lastSaveTime = <<>>
    /\ lastSave = <<>>
    /\ tasks = <<>>
    /\ redis = NoWrites
    /\ websocketService = NoService
    /\ sockets = <<>>
    /\ waits = {}
    /\ health = NoTick
    /\ binanceAPI = NoApi
    /\ requests = {}

----------------------------------------------------------------------------
(* Sequencing: every id pattern of a diff against a small book.            *)

SeqKeys == {Key("BTCUSDT", "futures"), Key("BTCUSDT", "spot")}

SeqSnapshots ==
    {[lastUpdateId |-> id, bids |-> <<<<Str(2), Str(1)>>>>, asks |-> <<<<Str(3), Str(1)>>>>] :
        id \in 0..1}

\* Binance sends U <= u; only the futures stream carries pu, and a futures
\* diff may come without it (update is {U, u, b, a} or {U, u, pu, b, a}).
SeqDiffs(key) ==
    {d \in [U : 0..MaxId, u : 0..MaxId,
            pu : IF key[2] = "futures" THEN {Undefined} \cup (0..MaxId) ELSE {Undefined},
            b : {<<>>, <<<<Str(2), Str(2)>>>>}, a : {<<>>}] : d.U <= d.u}

ApplyUpdate ==
    \E key \in SeqKeys :
        \E update \in SeqDiffs(key) :
            /\ applyUpdate(key[1], key[2], update)
            /\ noted' = Levels(key, update)
            /\ UNCHANGED <<now, metricsVars, serviceVars, apiVars>>

Next ==
    \/ Initialize(SeqKeys, SeqSnapshots)
    \/ ApplyUpdate
    \/ MarkOutOfSync(SeqKeys)
    \/ ClearOrderBook(SeqKeys)

Spec == Init /\ [][Next]_vars

----------------------------------------------------------------------------
(* Level mutation: every small diff content, applied in sequence.          *)

LevelKeys == {Key("BTCUSDT", "spot"), Key("SOLUSDT", "futures")}

LevelPrices == 1..3

\* The [price, qty] strings of the wire: every price with quantity 0, 1, 2,
\* and one entry for each way updateSide's validation fails.
LevelEntries ==
    {<<Str(price), Str(qty)>> : price \in LevelPrices, qty \in 0..2} \cup
    {<<Junk, Str(1)>>, <<Str(1), Junk>>, <<Str(0), Str(1)>>, <<Str(1), Str(-1)>>}

LevelUpdates(n) == UNION {[1..m -> LevelEntries] : m \in 0..n}

\* Up to two entries in a diff, all on one side: updateSide runs on each
\* side apart.
LevelContents ==
    {c \in LevelUpdates(2) \X LevelUpdates(2) : c[1] = <<>> \/ c[2] = <<>>}

\* The diffs that continue the stream of key's replica: U = u = L + 1, and
\* pu = L on futures.
LevelDiffs(key) ==
    IF key \notin DOMAIN orderBooks \/ orderBooks[key].lastUpdateId >= MaxLevelId
    THEN {}
    ELSE {[U |-> orderBooks[key].lastUpdateId + 1,
           u |-> orderBooks[key].lastUpdateId + 1,
           pu |-> IF key[2] = "futures" THEN orderBooks[key].lastUpdateId ELSE Undefined,
           b |-> c[1], a |-> c[2]] : c \in LevelContents}

\* One side of a REST snapshot: levels of positive quantity at distinct
\* prices, in any order, no more of them than the depth limit requested
\* (which maxLevels covers).
SnapshotSides(symbol) ==
    {side \in UNION {[1..m -> {<<Str(price), Str(qty)>> : price \in LevelPrices, qty \in 1..2}] :
                        m \in 0..maxLevels(symbol)} :
        \A i, j \in 1..Len(side) : i # j => side[i][1] # side[j][1]}

\* The snapshots of the exchange: every bid below every ask.
LevelSnapshots(symbol) ==
    {snapshot \in [lastUpdateId : {0}, bids : SnapshotSides(symbol), asks : SnapshotSides(symbol)] :
        \A i \in 1..Len(snapshot.bids), j \in 1..Len(snapshot.asks) :
            snapshot.bids[i][1].val < snapshot.asks[j][1].val}

\* Whether the diff lists one price twice on a side.
RepeatsPrice(updates) ==
    \E i, j \in 1..Len(updates) : i # j /\ updates[i][1] = updates[j][1]

\* Whether updateSide skips none of the entries: each is valid and within
\* 50% of the best price of the side as it stands when the entry is reached.
RECURSIVE PassesFilter(_, _, _)
PassesFilter(side, updates, sideType) ==
    IF updates = <<>> THEN TRUE
    ELSE LET price == ParseFloat(Head(updates)[1])
             qty == ParseFloat(Head(updates)[2])
         IN  /\ ~InvalidEntry(price, qty)
             /\ Len(side) > 0 => ~PriceDeviationTooLarge(price, side[1][1])
             /\ PassesFilter(UpdateLevel(side, Head(updates), sideType), Tail(updates), sideType)

\* Of a diff, the level-mutation specification notes whether a side lists
\* a price twice, whether every entry passes updateSide's filter, and the
\* two sides as updateSide leaves them, before the truncation.
LevelNote(key, update) ==
    [repeats |-> RepeatsPrice(update.b) \/ RepeatsPrice(update.a),
     passes |-> /\ PassesFilter(orderBooks[key].bids, update.b, "bid")
                /\ PassesFilter(orderBooks[key].asks, update.a, "ask"),
     sides |-> UpdatedSides(orderBooks[key], update)]

\* The first snapshot of a pair.
InitializeLevels ==
    /\ orderBooks = <<>>
    /\ \E key \in LevelKeys :
        \E snapshot \in LevelSnapshots(key[1]) :
            /\ initializeOrderBook(key[1], key[2], snapshot)
            /\ noted' = Nothing
            /\ UNCHANGED <<now, metricsVars, serviceVars, apiVars>>

\* The next diff of the stream.
ApplyUpdateLevels ==
    \E key \in LevelKeys :
        \E update \in LevelDiffs(key) :
            /\ applyUpdate(key[1], key[2], update)
            /\ noted' = LevelNote(key, update)
            /\ UNCHANGED <<now, metricsVars, serviceVars, apiVars>>

NextLevels ==
    \/ InitializeLevels
    \/ ApplyUpdateLevels

SpecLevels == Init /\ [][NextLevels]_vars

----------------------------------------------------------------------------
(* Reading the replicas, and the metrics calculator.                       *)

\* A clock that stops: the time a run lasts at most, in milliseconds.
MaxNow == 120001

\* Largest update id the metrics specification lets a replica reach.
MaxMetricsId == 1

\* getOrderBook: ageSeconds > 120
ZombieAgeSeconds == 120

\* this.saveInterval = { core: 30000, advanced: 30000 }
CoreSaveInterval == 30000
AdvancedSaveInterval == 30000

\* The null getOrderBook returns.
Null == [null |-> TRUE]

\* A getOrderBook without the age test.
getOrderBookAnyAge(symbol, type) ==
    LET key == Key(symbol, type)
    IN  IF key \notin DOMAIN orderBooks THEN Null
        ELSE IF orderBooks[key].needsResync THEN Null
        ELSE orderBooks[key]

\* getOrderBook(symbol, type): (Date.now() - orderBook.timestamp) / 1000 > 120
\* is a comparison of reals, so of the milliseconds with 120 * 1000.
getOrderBook(symbol, type) ==
    LET key == Key(symbol, type)
    IN  IF key \notin DOMAIN orderBooks THEN Null
        ELSE IF orderBooks[key].needsResync THEN Null
        ELSE IF now - orderBooks[key].timestamp > ZombieAgeSeconds * 1000 THEN Null
        ELSE orderBooks[key]

\* A handler of 'orderbook:update', suspended at the await its pc names;
\* tnow and ref are saveTimeSeriesIfNeeded's now and lastSave (0: not yet).
Task(key) == [key |-> key, pc |-> "delay", tnow |-> 0, ref |-> 0]

\* messageBus.on('orderbook:update', async ...) up to its first await, the
\* 100 ms timer; slots bounds the handlers that run at the same time.
OnOrderBookUpdate(key, slots) ==
    /\ slots \ DOMAIN tasks # {}
    /\ LET slot == CHOOSE i \in slots \ DOMAIN tasks : \A j \in slots \ DOMAIN tasks : i <= j
       IN  tasks' = MapSet(tasks, slot, Task(key))
    /\ redis' = [redis EXCEPT !.op = "none"]
    /\ UNCHANGED <<managerVars, noted, now, lastSaveTime, lastSave, serviceVars, apiVars>>

\* After the timer: calculateAllMetrics reads the replica and throws if
\* there is none (the listener's catch ends the handler); else it computes
\* the metrics and awaits getFundingRate.
CalculateAllMetrics(slot) ==
    /\ slot \in DOMAIN tasks
    /\ tasks[slot].pc = "delay"
    /\ LET key == tasks[slot].key
           orderBook == getOrderBook(key[1], key[2])
       IN  /\ last' = Call("getOrderBook", key,
                           IF orderBook = Null THEN "null" ELSE "book", orderBook # Null)
           /\ tasks' = IF orderBook = Null
                       THEN MapDelete(tasks, slot)
                       ELSE [tasks EXCEPT ![slot].pc = "fundingRate"]
    /\ redis' = [redis EXCEPT !.op = "none"]
    /\ noted' = Nothing
    /\ UNCHANGED <<orderBooks, futuresFailureCount, rejects, now, lastSaveTime, lastSave, serviceVars, apiVars>>

\* redisService.saveMetrics(symbol, type, extendedMetrics): the latest
\* metrics, stamped Date.now().
SaveMetrics(slot) ==
    /\ slot \in DOMAIN tasks
    /\ tasks[slot].pc = "fundingRate"
    /\ tasks' = [tasks EXCEPT ![slot].pc = "saveMetrics"]
    /\ redis' = [redis EXCEPT !.op = "metrics"]
    /\ UNCHANGED <<managerVars, noted, now, lastSaveTime, lastSave, serviceVars, apiVars>>

\* now - lastSave.core >= this.saveInterval.core
CoreDue(tnow, object) == tnow - object.core >= CoreSaveInterval

\* now - lastSave.advanced >= this.saveInterval.advanced
AdvancedDue(tnow, object) == tnow - object.advanced >= AdvancedSaveInterval

\* saveTimeSeriesIfNeeded from the advanced test on, for the task of slot
\* holding the object ref in the heap objects: the write is issued and
\* awaited, or lastSaveTime is set and the handler ends.
AdvancedOrDone(slot, tnow, ref, objects) ==
    IF AdvancedDue(tnow, objects[ref])
    THEN /\ redis' = [redis EXCEPT !.op = "advanced"]
         /\ tasks' = [tasks EXCEPT ![slot].pc = "saveAdvanced",
                                   ![slot].tnow = tnow, ![slot].ref = ref]
         /\ lastSave' = objects
         /\ UNCHANGED lastSaveTime
    ELSE /\ redis' = [redis EXCEPT !.op = "none"]
         /\ tasks' = MapDelete(tasks, slot)
         /\ lastSave' = objects
         /\ lastSaveTime' = MapSet(lastSaveTime, tasks[slot].key, ref)

\* saveTimeSeriesIfNeeded, entered when saveMetrics returns: lastSave is the
\* object lastSaveTime holds for the key, or a new { core: 0, advanced: 0 }
\* (the object of this slot).  If the core record is due its write goes
\* out, stamped Date.now(), and is awaited.
SaveTimeSeriesIfNeeded(slot) ==
    /\ slot \in DOMAIN tasks
    /\ tasks[slot].pc = "saveMetrics"
    /\ LET key == tasks[slot].key
           ref == IF key \in DOMAIN lastSaveTime THEN lastSaveTime[key] ELSE slot
           objects == IF key \in DOMAIN lastSaveTime THEN lastSave
                      ELSE MapSet(lastSave, slot, [core |-> 0, advanced |-> 0])
       IN  IF CoreDue(now, objects[ref])
           THEN /\ redis' = [redis EXCEPT !.op = "core", !.core = now]
                /\ tasks' = [tasks EXCEPT ![slot].pc = "saveCore",
                                          ![slot].tnow = now, ![slot].ref = ref]
                /\ lastSave' = objects
                /\ UNCHANGED lastSaveTime
           ELSE AdvancedOrDone(slot, now, ref, objects)
    /\ UNCHANGED <<managerVars, noted, now, serviceVars, apiVars>>

\* When saveCoreMetricsTimeSeries returns: lastSave.core = now, then the
\* advanced test.
CoreSaved(slot) ==
    /\ slot \in DOMAIN tasks
    /\ tasks[slot].pc = "saveCore"
    /\ LET ref == tasks[slot].ref
           tnow == tasks[slot].tnow
       IN  AdvancedOrDone(slot, tnow, ref, [lastSave EXCEPT ![ref].core = tnow])
    /\ UNCHANGED <<managerVars, noted, now, serviceVars, apiVars>>

\* When saveAdvancedMetricsTimeSeries returns: lastSave.advanced = now and
\* this.lastSaveTime.set(key, lastSave).
AdvancedSaved(slot) ==
    /\ slot \in DOMAIN tasks
    /\ tasks[slot].pc = "saveAdvanced"
    /\ LET ref == tasks[slot].ref
       IN  /\ lastSave' = [lastSave EXCEPT ![ref].advanced = tasks[slot].tnow]
           /\ lastSaveTime' = MapSet(lastSaveTime, tasks[slot].key, ref)
    /\ tasks' = MapDelete(tasks, slot)
    /\ redis' = [redis EXCEPT !.op = "none"]
    /\ UNCHANGED <<managerVars, noted, now, serviceVars, apiVars>>

\* Time passes.
Advance(steps) ==
    \E d \in steps :
        /\ now + d <= Epoch + MaxNow
        /\ now' = now + d
        /\ redis' = [redis EXCEPT !.op = "none"]
        /\ UNCHANGED <<managerVars, noted, lastSaveTime, lastSave, tasks, serviceVars, apiVars>>

----------------------------------------------------------------------------
(* Metrics: one replica, whose events the calculator handles.              *)

MetricsKeys == {Key("BTCUSDT", "spot")}

MetricsSnapshots ==
    {[lastUpdateId |-> 0, bids |-> <<<<Str(2), Str(1)>>>>, asks |-> <<<<Str(3), Str(1)>>>>]}

\* The next diff of the stream, and one that leaves a gap.
MetricsDiffs(key) ==
    IF key \notin DOMAIN orderBooks \/ orderBooks[key].lastUpdateId >= MaxMetricsId
    THEN {}
    ELSE LET L == orderBooks[key].lastUpdateId
         IN  {[U |-> L + d, u |-> L + d, pu |-> Undefined,
               b |-> <<<<Str(2), Str(2)>>>>, a |-> <<>>] : d \in 1..2}

\* A minute, and a millisecond more.
MetricsSteps == {60000, 60001}

MetricsSlots == {1}

InitializeMetrics ==
    \E key \in MetricsKeys, snapshot \in MetricsSnapshots :
        /\ initializeOrderBook(key[1], key[2], snapshot)
        /\ noted' = Nothing
        /\ redis' = [redis EXCEPT !.op = "none"]
        /\ UNCHANGED <<now, lastSaveTime, lastSave, tasks, serviceVars, apiVars>>

ApplyUpdateMetrics ==
    \E key \in MetricsKeys :
        \E update \in MetricsDiffs(key) :
            /\ applyUpdate(key[1], key[2], update)
            /\ noted' = Levels(key, update)
            /\ redis' = [redis EXCEPT !.op = "none"]
            /\ UNCHANGED <<now, lastSaveTime, lastSave, tasks, serviceVars, apiVars>>

MarkOutOfSyncMetrics ==
    \E key \in MetricsKeys :
        /\ key \in DOMAIN orderBooks
        /\ markOutOfSync(key[1], key[2])
        /\ noted' = Nothing
        /\ redis' = [redis EXCEPT !.op = "none"]
        /\ UNCHANGED <<now, lastSaveTime, lastSave, tasks, serviceVars, apiVars>>

ClearOrderBookMetrics ==
    \E key \in MetricsKeys :
        /\ key \in DOMAIN orderBooks
        /\ clearOrderBook(key[1], key[2])
        /\ noted' = Nothing
        /\ redis' = [redis EXCEPT !.op = "none"]
        /\ UNCHANGED <<now, lastSaveTime, lastSave, tasks, serviceVars, apiVars>>

NextMetrics ==
    \/ InitializeMetrics
    \/ ApplyUpdateMetrics
    \/ MarkOutOfSyncMetrics
    \/ ClearOrderBookMetrics
    \/ Advance(MetricsSteps)
    \/ \E key \in MetricsKeys : OnOrderBookUpdate(key, MetricsSlots)
    \/ \E slot \in MetricsSlots : CalculateAllMetrics(slot)
    \/ \E slot \in MetricsSlots : SaveMetrics(slot)
    \/ \E slot \in MetricsSlots : SaveTimeSeriesIfNeeded(slot)
    \/ \E slot \in MetricsSlots : CoreSaved(slot)
    \/ \E slot \in MetricsSlots : AdvancedSaved(slot)

SpecMetrics == Init /\ [][NextMetrics]_vars

----------------------------------------------------------------------------
(* Cadence: the handlers of one fresh replica's events, two at a time.     *)

CadenceSlots == 1..2

\* Less than the save interval, and the save interval.
CadenceSteps == {15000, 30000}

\* The snapshot, once.
InitializeCadence ==
    /\ orderBooks = <<>>
    /\ InitializeMetrics

NextCadence ==
    \/ InitializeCadence
    \/ Advance(CadenceSteps)
    \/ \E key \in MetricsKeys : OnOrderBookUpdate(key, CadenceSlots)
    \/ \E slot \in CadenceSlots : CalculateAllMetrics(slot)
    \/ \E slot \in CadenceSlots : SaveMetrics(slot)
    \/ \E slot \in CadenceSlots : SaveTimeSeriesIfNeeded(slot)
    \/ \E slot \in CadenceSlots : CoreSaved(slot)
    \/ \E slot \in CadenceSlots : AdvancedSaved(slot)

SpecCadence == Init /\ [][NextCadence]_vars

----------------------------------------------------------------------------
(* WebSocketService: the subscriptions of single pairs.                    *)
(*                                                                         *)
(* failedSubs and subscriptionStatus are Maps, iterated in insertion       *)
(* order: sequences of entries, an entry keeping its place when it is      *)
(* changed.  A WebSocket object carries the closure of the                 *)
(* subscribeOrderBook call that made it: updateBuffer, snapshotReady (pc   *)
(* = "ready") and the position of its 'open' handler.  received, passed    *)
(* and discarded record what became of the messages of the socket.         *)

\* config.websocket.maxConnectionsPerMinute is 50; scaled.
maxConnectionsPerMinute == 2

\* Messages a socket delivers at most.
MaxReceived == 2

\* Largest retryCount followed.
MaxRetryCount == 1

\* checkConnectionRateLimit: time > now - 60000
RateLimitWindow == 60000

\* waitForInitialization(key, 30000)
InitializationTimeout == 30000

IndexOf(entries, key) ==
    IF \E i \in 1..Len(entries) : entries[i].key = key
    THEN CHOOSE i \in 1..Len(entries) : entries[i].key = key
    ELSE 0

Has(entries, key) == IndexOf(entries, key) # 0

Entry(entries, key) == entries[IndexOf(entries, key)]

\* Map.delete(key)
Without(entries, key) ==
    LET Other(e) == e.key # key IN SelectSeq(entries, Other)

\* Map.set(key, entry)
Put(entries, entry) ==
    IF Has(entries, entry.key)
    THEN [entries EXCEPT ![IndexOf(entries, entry.key)] = entry]
    ELSE Append(entries, entry)

\* addToFailedQueue(symbol, type, reason).  A retryCount of MaxRetryCount + 1
\* stands for every larger one: the code logs the count and tests it nowhere.
addToFailedQueue(this, key) ==
    [this EXCEPT !.failedSubs =
        IF Has(this.failedSubs, key)
        THEN Put(this.failedSubs,
                 [Entry(this.failedSubs, key) EXCEPT
                     !.retryCount = IF @ > MaxRetryCount THEN @ ELSE @ + 1,
                     !.lastRetry = now])
        ELSE Append(this.failedSubs, [key |-> key, retryCount |-> 0, lastRetry |-> now])]

\* A removeFromFailedQueue that leaves the entry where it is.
removeFromFailedQueueKeeps(this, key) == this

\* removeFromFailedQueue(symbol, type)
removeFromFailedQueue(this, key) ==
    [this EXCEPT !.failedSubs = Without(@, key)]

\* checkConnectionRateLimit: the attempts of the last minute
RecentAttempts(attempts) ==
    LET Recent(time) == time > now - RateLimitWindow IN SelectSeq(attempts, Recent)

\* A rate limit that lets one attempt more through.
RateLimitedOffByOne(recent) == Len(recent) > maxConnectionsPerMinute

\* checkConnectionRateLimit: recentAttempts.length >= maxConnectionsPerMinute
RateLimited(recent) == Len(recent) >= maxConnectionsPerMinute

IsAlive(this, key) ==
    Has(this.subscriptionStatus, key) /\ Entry(this.subscriptionStatus, key).isAlive

\* ws.close(): the close event comes later.
Closing(socks, id) ==
    IF id \in DOMAIN socks /\ socks[id].readyState \in {"CONNECTING", "OPEN"}
    THEN [socks EXCEPT ![id].readyState = "CLOSING"]
    ELSE socks

\* unsubscribeOrderBook(symbol, type), the fields of the service
unsubscribeOrderBook(this, key) ==
    [this EXCEPT !.connections = MapDelete(@, key),
                 !.pingTimers = MapDelete(@, key),
                 !.subscriptionStatus = Without(@, key),
                 !.failedSubs = Without(@, key)]

\* A close handler that leaves the ping timer running.
closeHandlerKeepsPing(this, key) ==
    LET status == this.subscriptionStatus
        closed == [this EXCEPT
                     !.connections = MapDelete(@, key),
                     !.subscriptionStatus =
                         IF Has(status, key)
                         THEN Put(status, [Entry(status, key) EXCEPT !.isAlive = FALSE])
                         ELSE status]
    IN  addToFailedQueue(closed, key)

\* ws.on('close')
closeHandler(this, key) ==
    LET status == this.subscriptionStatus
        closed == [this EXCEPT
                     !.connections = MapDelete(@, key),
                     !.subscriptionStatus =
                         IF Has(status, key)
                         THEN Put(status, [Entry(status, key) EXCEPT !.isAlive = FALSE])
                         ELSE status,
                     !.pingTimers = MapDelete(@, key)]
    IN  addToFailedQueue(closed, key)

\* new WebSocket(wsUrl) with the variables of the call
Socket(key) ==
    [key |-> key, readyState |-> "CONNECTING", pc |-> "none", snapshotId |-> 0,
     updateBuffer |-> <<>>, appliedCount |-> 0,
     received |-> <<>>, passed |-> <<>>, discarded |-> <<>>]

\* A socket whose events are over and whose 'open' handler awaits nothing.
Gone(socket) ==
    socket.readyState = "CLOSED" /\ socket.pc \notin {"snapshot", "saving", "draining"}

Collect(socks) == [id \in {i \in DOMAIN socks : ~Gone(socks[i])} |-> socks[id]]

\* waitForInitialization: bids and asks are there
Initialized(symbol, type) ==
    LET orderBook == getOrderBook(symbol, type)
    IN  IF orderBook = Null THEN FALSE
        ELSE Len(orderBook.bids) > 0 /\ Len(orderBook.asks) > 0

\* What the running specification notes of the step: the call of the service,
\* what it returned, and the times of the last attempts the rate limit let
\* through.
NoNote == [op |-> "none", key |-> <<"", "">>, ret |-> "none", admitted |-> <<>>,
           closed |-> <<>>, retried |-> <<>>, removed |-> {}]

\* The claim a closed stream is measured against: alive, or in the failed
\* list with a retry counted.
Recovered(this, key) ==
    \/ IsAlive(this, key)
    \/ Has(this.failedSubs, key) /\ Entry(this.failedSubs, key).retryCount >= 1

\* The attempts that can lie in one window with the last one.
LastOnes(times) ==
    IF Len(times) > maxConnectionsPerMinute + 1 THEN Tail(times) ELSE times

\* now - lastRetry < 5000, timeSinceLastRetry < 5
RetryDelay == 5000

\* The step is a retry of an entry of the failed list, by the timer of
\* startAutoRetry or by the first part of the health check.
RetryStep(op) ==
    /\ op = "subscribeOrderBook"
    /\ \/ health'.autoAt # health.autoAt
       \/ Len(health'.did.retry) > Len(health.did.retry)

\* removed holds the keys whose entry of the failed list the step deleted.
\* retried keeps, for a key, the time of its last retry while that time is
\* less than the delay between two retries ago.
\* closed counts, for a pair whose stream closed and that has not recovered
\* since, the health-check ticks that started after the close and ended (2:
\* two or more; -1: a tick that started before the close is still running).
Note(op, key, ret) ==
    LET afterClose == IF op = "close"
                      THEN MapSet(noted.closed, key, IF health.pc = "idle" THEN 0 ELSE -1)
                      ELSE noted.closed
        tickEnded == health.pc # "idle" /\ health'.pc = "idle"
        counted == [k \in DOMAIN afterClose |->
                        IF tickEnded /\ afterClose[k] < 2 THEN afterClose[k] + 1
                        ELSE afterClose[k]]
    IN  noted' = [op |-> op, key |-> key, ret |-> ret,
                  admitted |-> IF op = "subscribeOrderBook" /\ ret # "limited"
                               THEN LastOnes(Append(noted.admitted, now))
                               ELSE noted.admitted,
                  closed |-> [k \in {j \in DOMAIN counted :
                                        ~Recovered(websocketService', j)} |-> counted[k]],
                  retried |-> LET times == IF RetryStep(op)
                                           THEN MapSet(noted.retried, key, now)
                                           ELSE noted.retried
                              IN  [k \in {j \in DOMAIN times : now - times[j] < RetryDelay}
                                      |-> times[k]],
                  removed |-> LET failed == websocketService.failedSubs
                              IN  {failed[i].key :
                                      i \in {j \in 1..Len(failed) :
                                                ~Has(websocketService'.failedSubs,
                                                     failed[j].key)}}]

\* messageBus.publishOrderBookUpdate(symbol, type): the service is followed
\* with no listener of 'orderbook:update' registered.
publishOrderBookUpdate(key) == UNCHANGED metricsVars

\* handleOrderBookUpdate(symbol, type, update)
handleOrderBookUpdate(key, update) ==
    LET this == websocketService
        outcome == IF key \in DOMAIN orderBooks
                   THEN Outcome(key[2], orderBooks[key], FailCount(key), update)
                   ELSE "missing"
        flagged == IF outcome \in {"missing", "gap", "resync"} THEN TRUE
                   ELSE orderBooks[key].needsResync
        unreadable == IF flagged THEN TRUE ELSE getOrderBook(key[1], key[2]) = Null
        status == IF Has(this.subscriptionStatus, key)
                  THEN Entry(this.subscriptionStatus, key)
                  ELSE [key |-> key, isAlive |-> FALSE, lastUpdate |-> 0,
                        subscriptionTime |-> now]
        confirmed == IF status.isAlive THEN this ELSE removeFromFailedQueue(this, key)
    IN  IF outcome = "applied"
        THEN /\ applyUpdate(key[1], key[2], update)
             /\ websocketService' =
                    [confirmed EXCEPT !.subscriptionStatus =
                        Put(@, [status EXCEPT !.isAlive = TRUE, !.lastUpdate = now])]
        ELSE IF unreadable /\ key \notin DOMAIN this.resyncInProgress
        THEN \* triggerResync up to its first await
             /\ clearOrderBook(key[1], key[2])
             /\ websocketService' =
                    [this EXCEPT !.resyncInProgress = MapSet(@, key, "snapshot")]
        ELSE /\ applyUpdate(key[1], key[2], update)
             /\ UNCHANGED websocketService

\* subscribeOrderBook(symbol, type) up to its first await; what it returns
\* at once is "limited" (false, by the rate limit) or "true", else it is
\* "pending" in waitForInitialization.  ids bounds the WebSocket objects
\* that exist at the same time.
SubscribeReturns(key) ==
    IF RateLimited(RecentAttempts(websocketService.connectionAttempts)) THEN "limited"
    ELSE IF Initialized(key[1], key[2]) THEN "true"
    ELSE "pending"

subscribeOrderBook(this, caller, key, ids) ==
    LET recent == RecentAttempts(this.connectionAttempts)
        counted == [this EXCEPT !.connectionAttempts = Append(recent, now)]
        connected == key \in DOMAIN this.connections
        closing == IF connected THEN Closing(sockets, this.connections[key]) ELSE sockets
        free == ids \ DOMAIN closing
        id == CHOOSE i \in free : \A j \in free : i <= j
    IN  IF RateLimited(recent)
        THEN /\ websocketService' =
                    addToFailedQueue([this EXCEPT !.connectionAttempts = recent], key)
             /\ UNCHANGED <<sockets, waits>>
        ELSE /\ free # {}
             /\ sockets' = MapSet(closing, id, Socket(key))
             /\ websocketService' =
                    [(IF connected THEN unsubscribeOrderBook(counted, key) ELSE counted)
                        EXCEPT !.connections = MapSet(@, key, id)]
             /\ waits' = IF Initialized(key[1], key[2]) THEN waits
                         ELSE waits \cup {[key |-> key, caller |-> caller, start |-> now]}

\* ws.on('open') up to the await of the snapshot
SocketOpen(id) ==
    /\ id \in DOMAIN sockets
    /\ sockets[id].readyState = "CONNECTING"
    /\ sockets' = [sockets EXCEPT ![id].readyState = "OPEN", ![id].pc = "snapshot"]
    /\ websocketService' =
           [websocketService EXCEPT !.pingTimers = MapSet(@, sockets[id].key, id)]
    /\ UNCHANGED <<managerVars, now, metricsVars, apiVars, waits, health>>
    /\ Note("open", sockets[id].key, "none")

\* ws.on('open'): the snapshot is there, initializeOrderBook up to its await
SnapshotReturns(id, snapshots) ==
    /\ id \in DOMAIN sockets
    /\ sockets[id].pc = "snapshot"
    /\ \E snapshot \in snapshots :
        /\ initializeOrderBook(sockets[id].key[1], sockets[id].key[2], snapshot)
        /\ sockets' = [sockets EXCEPT ![id].pc = "saving",
                                      ![id].snapshotId = snapshot.lastUpdateId]
    /\ UNCHANGED <<now, metricsVars, apiVars, websocketService, waits, health>>
    /\ Note("initializeOrderBook", sockets[id].key, "none")

\* ws.on('open'): getDepthSnapshot threw, the catch
SnapshotFails(id) ==
    /\ id \in DOMAIN sockets
    /\ sockets[id].pc = "snapshot"
    /\ sockets' = Collect(Closing([sockets EXCEPT ![id].pc = "failed"], id))
    /\ websocketService' = addToFailedQueue(websocketService, sockets[id].key)
    /\ UNCHANGED <<managerVars, now, metricsVars, apiVars, waits, health>>
    /\ Note("snapshotFailed", sockets[id].key, "none")

\* ws.on('open') after initializeOrderBook: snapshotReady = true, and the
\* buffer is processed without an await, so that no other handler runs
\* before DrainDone.
SnapshotSaved(id) ==
    /\ id \in DOMAIN sockets
    /\ sockets[id].pc = "saving"
    /\ sockets' = [sockets EXCEPT ![id].pc = "draining"]
    /\ UNCHANGED <<managerVars, now, metricsVars, apiVars, websocketService, waits, health>>
    /\ Note("snapshotReady", sockets[id].key, "none")

\* A drain that lets the diff that ends at the snapshot through.
DiscardsBelow(update, snapshotId) == update.u < snapshotId

\* bufferedUpdate.u <= snapshot.lastUpdateId
Discards(update, snapshotId) == update.u <= snapshotId

Draining == \E id \in DOMAIN sockets : sockets[id].pc = "draining"

\* for (const bufferedUpdate of updateBuffer)
DrainStep(id) ==
    /\ id \in DOMAIN sockets
    /\ sockets[id].pc = "draining"
    /\ sockets[id].updateBuffer # <<>>
    /\ publishOrderBookUpdate(sockets[id].key)
    /\ UNCHANGED apiVars
    /\ UNCHANGED <<now, websocketService, waits, health>>
    /\ LET socket == sockets[id]
           key == socket.key
           update == Head(socket.updateBuffer)
           rest == [socket EXCEPT !.updateBuffer = Tail(@)]
           success == IF key \in DOMAIN orderBooks
                      THEN Outcome(key[2], orderBooks[key], FailCount(key), update) = "applied"
                      ELSE FALSE
       IN  IF Discards(update, socket.snapshotId)
           THEN /\ sockets' = [sockets EXCEPT ![id] =
                                  [rest EXCEPT !.discarded = Append(@, update.n)]]
                /\ UNCHANGED managerVars
                /\ Note("discard", key, "none")
           ELSE /\ applyUpdate(key[1], key[2], update)
                /\ sockets' = [sockets EXCEPT ![id] =
                                  [rest EXCEPT !.passed = Append(@, update.n),
                                               !.appliedCount =
                                                   IF success THEN @ + 1 ELSE @]]
                /\ Note("applyUpdate", key, IF success THEN "true" ELSE "false")

\* ws.on('open') after the buffer: updateBuffer = [], and the status of a
\* subscription that has not yet received a live update
DrainDone(id) ==
    /\ id \in DOMAIN sockets
    /\ sockets[id].pc = "draining"
    /\ sockets[id].updateBuffer = <<>>
    /\ sockets' = Collect([sockets EXCEPT ![id].pc = "ready"])
    /\ websocketService' =
           [websocketService EXCEPT !.subscriptionStatus =
               Put(@, [key |-> sockets[id].key, isAlive |-> FALSE, lastUpdate |-> now,
                       subscriptionTime |-> now])]
    /\ UNCHANGED <<managerVars, now, metricsVars, apiVars, waits, health>>
    /\ Note("subscribed", sockets[id].key, "none")

\* ws.on('message')
SocketMessage(id, updates) ==
    /\ id \in DOMAIN sockets
    /\ sockets[id].readyState = "OPEN"
    /\ Len(sockets[id].received) < MaxReceived
    /\ publishOrderBookUpdate(sockets[id].key)
    /\ UNCHANGED apiVars
    /\ UNCHANGED <<now, waits, health>>
    /\ \E update \in updates :
        LET socket == sockets[id]
            n == Len(socket.received) + 1
        IN  IF socket.pc # "ready"
            THEN /\ sockets' = [sockets EXCEPT ![id] =
                        [socket EXCEPT
                            !.updateBuffer = Append(@, update @@ [n |-> n]),
                            !.received = Append(@, [u |-> update.u, buffered |-> TRUE])]]
                 /\ UNCHANGED <<managerVars, websocketService>>
                 /\ Note("buffer", socket.key, "none")
            ELSE /\ handleOrderBookUpdate(socket.key, update)
                 /\ sockets' = [sockets EXCEPT ![id] =
                        [socket EXCEPT
                            !.passed = Append(@, n),
                            !.received = Append(@, [u |-> update.u, buffered |-> FALSE])]]
                 /\ Note("handleOrderBookUpdate", socket.key,
                         IF last'.op = "applyUpdate" /\ last'.ret THEN "true" ELSE "false")

\* ws.on('error')
SocketError(id) ==
    /\ id \in DOMAIN sockets
    /\ sockets[id].readyState \in {"CONNECTING", "OPEN"}
    /\ websocketService' = addToFailedQueue(websocketService, sockets[id].key)
    /\ UNCHANGED <<managerVars, now, metricsVars, apiVars, sockets, waits, health>>
    /\ Note("error", sockets[id].key, "none")

\* The close event and ws.on('close')
SocketClose(id) ==
    /\ id \in DOMAIN sockets
    /\ sockets[id].readyState # "CLOSED"
    /\ sockets' = Collect([sockets EXCEPT ![id].readyState = "CLOSED"])
    /\ websocketService' = closeHandler(websocketService, sockets[id].key)
    /\ UNCHANGED <<managerVars, now, metricsVars, apiVars, waits, health>>
    /\ Note("close", sockets[id].key, "none")

\* The health check or another caller goes on after the await that ended.
Resume(tick, awaited) ==
    IF tick.pc = awaited
    THEN [tick EXCEPT !.pc = IF awaited = "retryWait" THEN "retry"
                             ELSE IF awaited = "scanWait" THEN "scan"
                             ELSE "resync"]
    ELSE tick

\* triggerResync: the snapshot is there, initializeOrderBook up to its await
ResyncSnapshotReturns(keys, snapshots) ==
    \E key \in keys, snapshot \in snapshots :
        /\ key \in DOMAIN websocketService.resyncInProgress
        /\ websocketService.resyncInProgress[key] = "snapshot"
        /\ initializeOrderBook(key[1], key[2], snapshot)
        /\ websocketService' = [websocketService EXCEPT !.resyncInProgress[key] = "saving"]
        /\ UNCHANGED <<now, metricsVars, apiVars, sockets, waits, health>>
        /\ Note("initializeOrderBook", key, "none")

\* triggerResync: the snapshot request threw; the catch and the finally
ResyncSnapshotFails(keys) ==
    \E key \in keys :
        /\ key \in DOMAIN websocketService.resyncInProgress
        /\ websocketService.resyncInProgress[key] = "snapshot"
        /\ websocketService' =
               [addToFailedQueue(websocketService, key)
                   EXCEPT !.resyncInProgress = MapDelete(@, key)]
        /\ health' = IF health.key = key THEN Resume(health, "resyncWait") ELSE health
        /\ UNCHANGED <<managerVars, now, metricsVars, apiVars, sockets, waits>>
        /\ Note("resyncFailed", key, "none")

\* triggerResync after initializeOrderBook: the publish and the finally
ResyncSaved(keys) ==
    \E key \in keys :
        /\ key \in DOMAIN websocketService.resyncInProgress
        /\ websocketService.resyncInProgress[key] = "saving"
        /\ websocketService' =
               [websocketService EXCEPT !.resyncInProgress = MapDelete(@, key)]
        /\ health' = IF health.key = key THEN Resume(health, "resyncWait") ELSE health
        /\ publishOrderBookUpdate(key)
        /\ UNCHANGED apiVars
        /\ UNCHANGED <<managerVars, now, sockets, waits>>
        /\ Note("resynced", key, "none")

\* subscribeOrderBook called at startup or through the API, by one caller at
\* a time
Subscribe(keys, ids) ==
    \E key \in keys :
        /\ \A wait \in waits : wait.caller # "api"
        /\ subscribeOrderBook(websocketService, "api", key, ids)
        /\ UNCHANGED <<managerVars, now, metricsVars, apiVars, health>>
        /\ Note("subscribeOrderBook", key, SubscribeReturns(key))

\* subscribeOrderBook after waitForInitialization returned: return true
WaitSucceeds ==
    \E wait \in waits :
        /\ Initialized(wait.key[1], wait.key[2])
        /\ waits' = waits \ {wait}
        /\ health' = IF wait.caller = "health"
                     THEN Resume(Resume(health, "retryWait"), "scanWait")
                     ELSE health
        /\ UNCHANGED <<managerVars, now, metricsVars, apiVars, websocketService, sockets>>
        /\ Note("subscribed", wait.key, "true")

\* subscribeOrderBook after waitForInitialization threw: the catch, return false
WaitTimesOut ==
    \E wait \in waits :
        /\ now - wait.start >= InitializationTimeout
        /\ ~Initialized(wait.key[1], wait.key[2])
        /\ waits' = waits \ {wait}
        /\ websocketService' = addToFailedQueue(websocketService, wait.key)
        /\ health' = IF wait.caller = "health"
                     THEN Resume(Resume(health, "retryWait"), "scanWait")
                     ELSE health
        /\ UNCHANGED <<managerVars, now, metricsVars, apiVars, sockets>>
        /\ Note("timeout", wait.key, "false")

----------------------------------------------------------------------------
(* The timers: startAutoRetry of the service and the health check of the   *)
(* server.  A tick of the health check is followed to its end before the   *)
(* next one starts.                                                        *)

\* setInterval(..., 10000) of startAutoRetry
AutoRetryInterval == 10000

\* setInterval(..., 15000) of the health check
HealthCheckInterval == 15000

\* subscriptionAgeSeconds > 60, ageSeconds > 60
StallSeconds == 60

\* The entries a retry loop does not skip.
RetryEligible(entries) ==
    LET Due(entry) == now - entry.lastRetry >= RetryDelay IN SelectSeq(entries, Due)

\* A retry loop without its break.
RetryTargetsAll(entries) ==
    [i \in 1..Len(RetryEligible(entries)) |-> RetryEligible(entries)[i].key]

\* for (const failedSub of failedSubs) { if (...) continue; ...; break; }
RetryTargets(entries) ==
    IF RetryEligible(entries) = <<>> THEN <<>> ELSE <<Head(RetryEligible(entries)).key>>

\* getSubscriptionStatus()
getSubscriptionStatus(this) ==
    [i \in 1..Len(this.subscriptionStatus) |->
        LET status == this.subscriptionStatus[i]
        IN  [key |-> status.key, isAlive |-> status.isAlive,
             ageSeconds |-> (now - status.lastUpdate) \div 1000,
             subscriptionAgeSeconds |-> (now - status.subscriptionTime) \div 1000]]

\* !isAlive && subscriptionAgeSeconds > 60
NeverAlive(status) == ~status.isAlive /\ status.subscriptionAgeSeconds > StallSeconds

\* A stall test that waits for two minutes.
StalledLate(status) == status.isAlive /\ status.ageSeconds > 2 * StallSeconds

\* isAlive && ageSeconds > 60
Stalled(status) == status.isAlive /\ status.ageSeconds > StallSeconds

Remedy(status) ==
    [key |-> status.key, kind |-> IF NeverAlive(status) THEN "neverAlive" ELSE "stall"]

\* The statuses the scan acts on.
ScanEligible(statuses) ==
    LET Broken(status) == IF NeverAlive(status) THEN TRUE ELSE Stalled(status)
    IN  SelectSeq(statuses, Broken)

\* for (const status of subscriptionStatuses) { if (...) { ...; break; } ... }
ScanTargets(statuses) ==
    IF ScanEligible(statuses) = <<>> THEN <<>> ELSE <<Remedy(Head(ScanEligible(statuses)))>>

\* The orders in which a Map can hold the keys.
Orders(keys) ==
    {order \in [1..Cardinality(keys) -> keys] :
        \A i, j \in 1..Cardinality(keys) : order[i] = order[j] => i = j}

\* for (const [key, status] of Object.entries(allOrderBooks)) { if (...) { ...; break; } }
ResyncTargets(flagged) == IF flagged = <<>> THEN <<>> ELSE <<Head(flagged)>>

\* The callback of startAutoRetry's timer up to its first await
AutoRetry(ids) ==
    /\ now - health.autoAt >= AutoRetryInterval
    /\ health' = [health EXCEPT !.autoAt = now]
    /\ LET this == websocketService
           targets == RetryTargets(this.failedSubs)
           key == Head(targets)
           retried == [this EXCEPT !.failedSubs =
                          Put(@, [Entry(@, key) EXCEPT !.lastRetry = now])]
       IN  IF targets = <<>>
           THEN /\ UNCHANGED <<websocketService, sockets, waits>>
                /\ Note("autoRetry", <<"", "">>, "none")
           ELSE /\ subscribeOrderBook(retried, "auto", key, ids)
                /\ Note("subscribeOrderBook", key, SubscribeReturns(key))
    /\ UNCHANGED <<managerVars, now, metricsVars, apiVars>>

\* The health check fires: getFailedSubscriptions()
HealthCheck ==
    /\ health.pc = "idle"
    /\ now - health.at >= HealthCheckInterval
    /\ health' = [NoTick EXCEPT !.pc = "retry",
                                !.targets = RetryTargets(websocketService.failedSubs),
                                !.at = now, !.autoAt = health.autoAt]
    /\ UNCHANGED <<managerVars, now, metricsVars, apiVars, websocketService, sockets, waits>>
    /\ Note("healthCheck", <<"", "">>, "none")

\* 1: await websocketService.subscribeOrderBook(symbol, type)
RetryFailed(ids) ==
    /\ health.pc = "retry"
    /\ health.targets # <<>>
    /\ LET key == Head(health.targets)
       IN  /\ subscribeOrderBook(websocketService, "health", key, ids)
           /\ health' = [health EXCEPT
                            !.targets = Tail(@), !.key = key,
                            !.did.retry = Append(@, key),
                            !.pc = IF SubscribeReturns(key) = "pending"
                                   THEN "retryWait" ELSE "retry"]
           /\ Note("subscribeOrderBook", key, SubscribeReturns(key))
    /\ UNCHANGED <<managerVars, now, metricsVars, apiVars>>

\* 2: getSubscriptionStatus()
ScanStatus ==
    /\ health.pc = "retry"
    /\ health.targets = <<>>
    /\ health' = [health EXCEPT
                     !.pc = "scan",
                     !.scanned = getSubscriptionStatus(websocketService),
                     !.targets = ScanTargets(getSubscriptionStatus(websocketService))]
    /\ UNCHANGED <<managerVars, now, metricsVars, apiVars, websocketService, sockets, waits>>
    /\ Note("getSubscriptionStatus", <<"", "">>, "none")

\* 2: websocketService.unsubscribeOrderBook(symbol, type) and the timer of 1000 ms
Unsubscribe ==
    /\ health.pc = "scan"
    /\ health.targets # <<>>
    /\ LET key == Head(health.targets).key
           this == websocketService
       IN  /\ websocketService' = unsubscribeOrderBook(this, key)
           /\ sockets' = IF key \in DOMAIN this.connections
                         THEN Closing(sockets, this.connections[key])
                         ELSE sockets
           /\ health' = [health EXCEPT !.pc = "scanDelay", !.key = key,
                                       !.did.unsubscribe = Append(@, key)]
           /\ Note("unsubscribeOrderBook", key, "none")
    /\ UNCHANGED <<managerVars, now, metricsVars, apiVars, waits>>

\* 2: await websocketService.subscribeOrderBook(symbol, type)
Resubscribe(ids) ==
    /\ health.pc = "scanDelay"
    /\ LET target == Head(health.targets)
           waiting == IF SubscribeReturns(target.key) = "pending" THEN "scanWait" ELSE "scan"
       IN  /\ subscribeOrderBook(websocketService, "health", target.key, ids)
           /\ health' = IF target.kind = "stall"
                        THEN [health EXCEPT !.targets = Tail(@), !.pc = waiting,
                                            !.did.stall = Append(@, target.key)]
                        ELSE [health EXCEPT !.targets = Tail(@), !.pc = waiting,
                                            !.did.neverAlive = Append(@, target.key)]
           /\ Note("subscribeOrderBook", target.key, SubscribeReturns(target.key))
    /\ UNCHANGED <<managerVars, now, metricsVars, apiVars>>

\* 3: orderBookManager.getAllOrderBooks(); the order of the Map of the
\* replicas is not followed, so that any order is taken.
ScanReplicas ==
    /\ health.pc = "scan"
    /\ health.targets = <<>>
    /\ \E order \in Orders({key \in DOMAIN orderBooks : orderBooks[key].needsResync}) :
           health' = [health EXCEPT !.pc = "resync", !.targets = ResyncTargets(order)]
    /\ UNCHANGED <<managerVars, now, metricsVars, apiVars, websocketService, sockets, waits>>
    /\ Note("getAllOrderBooks", <<"", "">>, "none")

\* 3: await websocketService.triggerResync(symbol, type, ...)
Resync ==
    /\ health.pc = "resync"
    /\ health.targets # <<>>
    /\ LET key == Head(health.targets)
           tick == [health EXCEPT !.targets = Tail(@), !.key = key,
                                  !.did.resync = Append(@, key)]
       IN  IF key \in DOMAIN websocketService.resyncInProgress
           THEN /\ health' = tick
                /\ UNCHANGED <<managerVars, websocketService>>
                /\ Note("triggerResync", key, "none")
           ELSE /\ clearOrderBook(key[1], key[2])
                /\ websocketService' =
                       [websocketService EXCEPT
                           !.resyncInProgress = MapSet(@, key, "snapshot")]
                /\ health' = [tick EXCEPT !.pc = "resyncWait"]
                /\ Note("triggerResync", key, "none")
    /\ UNCHANGED <<now, metricsVars, apiVars, sockets, waits>>

\* The callback of the health check returns.
HealthCheckEnds ==
    /\ health.pc = "resync"
    /\ health.targets = <<>>
    /\ health' = [health EXCEPT !.pc = "idle"]
    /\ UNCHANGED <<managerVars, now, metricsVars, apiVars, websocketService, sockets, waits>>
    /\ Note("healthCheckEnds", <<"", "">>, "none")

----------------------------------------------------------------------------
(* Buffer: one pair and one socket at a time, with the messages of its     *)
(* stream.                                                                 *)

\* Largest update id a message of the stream carries.
MaxBufferId == 3

BufferKeys == {Key("BTCUSDT", "spot")}

BufferSockets == {1}

BufferSnapshots ==
    {[lastUpdateId |-> 1, bids |-> <<<<Str(2), Str(1)>>>>, asks |-> <<<<Str(3), Str(1)>>>>]}

BufferDiffs ==
    {[U |-> u, u |-> u, pu |-> Undefined, b |-> <<<<Str(2), Str(2)>>>>, a |-> <<>>] :
        u \in 1..MaxBufferId}

\* Two minutes.
BufferSteps == {120000}

\* The retry counts that are followed.
BoundedService ==
    \A i \in 1..Len(websocketService.failedSubs) :
        websocketService.failedSubs[i].retryCount <= MaxRetryCount

InitService ==
    /\ orderBooks = <<>>
    /\ futuresFailureCount = <<>>
    /\ last = NoCall
    /\ noted = NoNote
    /\ rejects = <<>>
    /\ now = Epoch
    /\ lastSaveTime = <<>>
    /\ lastSave = <<>>
    /\ tasks = <<>>
    /\ redis = NoWrites
    /\ websocketService = NoService
    /\ sockets = <<>>
    /\ waits = {}
    /\ health = NoTick
    /\ binanceAPI = NoApi
    /\ requests = {}

NextBuffer ==
    \/ \E id \in BufferSockets : DrainStep(id)
    \/ \E id \in BufferSockets : DrainDone(id)
    \/ ~Draining /\ Subscribe(BufferKeys, BufferSockets) /\ BoundedService'
    \/ ~Draining /\ \E id \in BufferSockets : SocketOpen(id)
    \/ ~Draining /\ \E id \in BufferSockets : SnapshotReturns(id, BufferSnapshots)
    \/ ~Draining /\ \E id \in BufferSockets : SnapshotFails(id) /\ BoundedService'
    \/ ~Draining /\ \E id \in BufferSockets : SnapshotSaved(id)
    \/ ~Draining /\ \E id \in BufferSockets : SocketMessage(id, BufferDiffs)
    \/ ~Draining /\ \E id \in BufferSockets : SocketError(id) /\ BoundedService'
    \/ ~Draining /\ \E id \in BufferSockets : SocketClose(id) /\ BoundedService'
    \/ ~Draining /\ WaitSucceeds
    \/ ~Draining /\ WaitTimesOut /\ BoundedService'
    \/ ~Draining /\ ResyncSnapshotReturns(BufferKeys, BufferSnapshots)
    \/ ~Draining /\ ResyncSnapshotFails(BufferKeys) /\ BoundedService'
    \/ ~Draining /\ ResyncSaved(BufferKeys)
    \/ ~Draining /\ Advance(BufferSteps)

SpecBuffer == InitService /\ [][NextBuffer]_vars

----------------------------------------------------------------------------
(* Health: two pairs, subscribed once at startup, under the two timers.    *)

HealthKeys == {Key("BTCUSDT", "spot")}

HealthSockets == {1}

\* Largest update id a replica reaches.
MaxHealthId == 2

\* The stream of a socket: after the buffer is processed the diff that follows
\* the replica, before that a diff that leaves a gap after the snapshot.
HealthDiffs(id) ==
    LET key == sockets[id].key
        Diff(u) == [U |-> u, u |-> u, pu |-> Undefined,
                    b |-> <<<<Str(2), Str(2)>>>>, a |-> <<>>]
    IN  IF sockets[id].pc # "ready" THEN {Diff(MaxHealthId + 1)}
        ELSE IF key \in DOMAIN orderBooks /\ orderBooks[key].lastUpdateId < MaxHealthId
             THEN {Diff(orderBooks[key].lastUpdateId + 1)}
        ELSE {}

\* A minute.
HealthSteps == {60000}

\* The subscription of a pair the service does not know yet.
Startup(keys, ids) ==
    \E key \in keys :
        /\ key \notin DOMAIN websocketService.connections
        /\ key \notin DOMAIN orderBooks
        /\ ~Has(websocketService.subscriptionStatus, key)
        /\ ~Has(websocketService.failedSubs, key)
        /\ Subscribe({key}, ids)

\* The subscriptions that have not yet processed their buffer: one at a time.
OneAtATime ==
    Cardinality({id \in DOMAIN sockets : sockets[id].pc \in {"none", "snapshot", "saving"}})
        <= 1

\* The health check runs between two awaits, or a buffer is processed: no
\* other handler runs.
Busy == IF Draining THEN TRUE ELSE health.pc \in {"retry", "scan", "resync"}

NextHealth ==
    \/ \E id \in HealthSockets : DrainStep(id)
    \/ \E id \in HealthSockets : DrainDone(id)
    \/ RetryFailed(HealthSockets) /\ BoundedService' /\ OneAtATime'
    \/ ScanStatus
    \/ Unsubscribe
    \/ ScanReplicas
    \/ Resync
    \/ HealthCheckEnds
    \/ ~Busy /\ HealthCheck
    \/ ~Busy /\ Resubscribe(HealthSockets) /\ BoundedService' /\ OneAtATime'
    \/ ~Busy /\ AutoRetry(HealthSockets) /\ BoundedService' /\ OneAtATime'
    \/ ~Busy /\ Startup(HealthKeys, HealthSockets) /\ BoundedService' /\ OneAtATime'
    \/ ~Busy /\ \E id \in HealthSockets : SocketOpen(id)
    \/ ~Busy /\ \E id \in HealthSockets : SnapshotReturns(id, BufferSnapshots)
    \/ ~Busy /\ \E id \in HealthSockets : SnapshotSaved(id)
    \/ ~Busy /\ \E id \in HealthSockets : SocketMessage(id, HealthDiffs(id))
    \/ ~Busy /\ \E id \in HealthSockets : SocketClose(id) /\ BoundedService'
    \/ ~Busy /\ WaitSucceeds
    \/ ~Busy /\ WaitTimesOut /\ BoundedService'
    \/ ~Busy /\ ResyncSnapshotReturns(HealthKeys, BufferSnapshots)
    \/ ~Busy /\ ResyncSaved(HealthKeys)
    \/ ~Busy /\ Advance(HealthSteps)

SpecHealth == InitService /\ [][NextHealth]_vars

----------------------------------------------------------------------------
(* Scan: two pairs and one tick of the health check.  The pairs are        *)
(* subscribed, receive messages and lose their streams before the tick;    *)
(* from the tick on, only what the tick started goes on.                   *)

ScanKeys == {Key("BTCUSDT", "spot"), Key("ETHUSDT", "spot")}

ScanSockets == 1..2

\* Two minutes.
ScanSteps == {120000}

\* No tick of the health check has fired.
BeforeTick == health.at = Epoch

\* A stream is lost before the tick; after ws.close() the close event comes
\* at any time.
StreamCloses(ids) ==
    \E id \in ids :
        /\ id \in DOMAIN sockets
        /\ IF BeforeTick THEN TRUE ELSE sockets[id].readyState = "CLOSING"
        /\ SocketClose(id)

NextScan ==
    \/ \E id \in ScanSockets : DrainStep(id)
    \/ \E id \in ScanSockets : DrainDone(id)
    \/ RetryFailed(ScanSockets) /\ BoundedService' /\ OneAtATime'
    \/ ScanStatus
    \/ Unsubscribe
    \/ ScanReplicas
    \/ Resync
    \/ HealthCheckEnds
    \/ ~Busy /\ HealthCheck
    \/ ~Busy /\ Resubscribe(ScanSockets) /\ BoundedService' /\ OneAtATime'
    \/ ~Busy /\ BeforeTick /\ Startup(ScanKeys, ScanSockets) /\ BoundedService' /\ OneAtATime'
    \/ ~Busy /\ BeforeTick /\ \E id \in ScanSockets : SocketMessage(id, HealthDiffs(id))
    \/ ~Busy /\ StreamCloses(ScanSockets) /\ BoundedService'
    \/ ~Busy /\ \E id \in ScanSockets : SocketOpen(id)
    \/ ~Busy /\ \E id \in ScanSockets : SnapshotReturns(id, BufferSnapshots)
    \/ ~Busy /\ \E id \in ScanSockets : SnapshotSaved(id)
    \/ ~Busy /\ WaitSucceeds
    \/ ~Busy /\ WaitTimesOut /\ BoundedService'
    \/ ~Busy /\ ResyncSnapshotReturns(ScanKeys, BufferSnapshots)
    \/ ~Busy /\ ResyncSaved(ScanKeys)
    \/ ~Busy /\ Advance(ScanSteps)

SpecScan == InitService /\ [][NextScan]_vars

----------------------------------------------------------------------------
(* Properties of applyUpdate's sequencing, checked under Spec.             *)

\* The step is an applyUpdate call on the existing replica of key.
ApplyStep(key) ==
    /\ key \in DOMAIN orderBooks
    /\ last'.op = "applyUpdate"
    /\ last'.key = key

\* bids, asks and lastUpdateId of key's replica are as before the step.
SameLevelsAndId(key) ==
    /\ orderBooks'[key].bids = orderBooks[key].bids
    /\ orderBooks'[key].asks = orderBooks[key].asks
    /\ orderBooks'[key].lastUpdateId = orderBooks[key].lastUpdateId

\* C1: a spot replica with lastUpdateId = L that is not flagged needsResync
\* does not apply a diff with U > L + 1 and u > L: bids, asks and
\* lastUpdateId stay, needsResync becomes true and the call returns false.
C1_SpotGapMarksResync ==
    [][\A key \in DOMAIN orderBooks :
        (/\ ApplyStep(key)
         /\ key[2] = "spot"
         /\ ~orderBooks[key].needsResync
         /\ last'.U > orderBooks[key].lastUpdateId + 1
         /\ last'.u > orderBooks[key].lastUpdateId)
        => /\ SameLevelsAndId(key)
           /\ orderBooks'[key].needsResync
           /\ last'.ret = FALSE]_vars

\* C1 witness: a spot diff with content and U > L + 1 was just refused and
\* the replica is flagged.
C1_Witness ==
    /\ last.op = "applyUpdate"
    /\ last.key[2] = "spot"
    /\ last.key \in DOMAIN orderBooks
    /\ last.outcome = "gap"
    /\ noted.b # <<>>
    /\ last.U > orderBooks[last.key].lastUpdateId + 1
    /\ orderBooks[last.key].needsResync

\* C2: a spot diff with u <= L returns false and changes nothing: bids,
\* asks, lastUpdateId, needsResync and hasReceivedUpdate are as before.
C2_SpotStaleNoSideEffects ==
    [][\A key \in DOMAIN orderBooks :
        (/\ ApplyStep(key)
         /\ key[2] = "spot"
         /\ last'.u <= orderBooks[key].lastUpdateId)
        => /\ orderBooks'[key] = orderBooks[key]
           /\ last'.ret = FALSE]_vars

\* C2 witness: after a first applied diff, a spot diff with content and
\* u <= L was just refused as stale.
C2_Witness ==
    /\ last.op = "applyUpdate"
    /\ last.key[2] = "spot"
    /\ last.key \in DOMAIN orderBooks
    /\ last.outcome = "stale"
    /\ noted.b # <<>>
    /\ last.u <= orderBooks[last.key].lastUpdateId
    /\ orderBooks[last.key].hasReceivedUpdate
    /\ orderBooks[last.key].bids = <<<<2, 1>>>>

\* C3: for spot and futures alike, an applyUpdate call never lowers
\* lastUpdateId; an applied diff leaves it equal to the diff's u, and a
\* diff that is not applied leaves it unchanged.
C3_LastUpdateIdMonotone ==
    [][\A key \in DOMAIN orderBooks :
        ApplyStep(key)
        => /\ orderBooks'[key].lastUpdateId >= orderBooks[key].lastUpdateId
           /\ last'.ret => orderBooks'[key].lastUpdateId = last'.u
           /\ ~last'.ret => orderBooks'[key].lastUpdateId = orderBooks[key].lastUpdateId]_vars

\* C3 witness: a diff was just applied and moved lastUpdateId at least two
\* ids past the snapshot.
C3_Witness ==
    /\ last.op = "applyUpdate"
    /\ last.ret
    /\ last.key \in DOMAIN orderBooks
    /\ orderBooks[last.key].lastUpdateId = last.u
    /\ last.u = MaxId

\* C7, as stated: for spot and futures alike, a diff with u <= L leaves
\* bids, asks, lastUpdateId and needsResync unchanged.
C7_StaleIdempotentAnySegment ==
    [][\A key \in DOMAIN orderBooks :
        (/\ ApplyStep(key)
         /\ last'.u <= orderBooks[key].lastUpdateId)
        => /\ SameLevelsAndId(key)
           /\ orderBooks'[key].needsResync = orderBooks[key].needsResync]_vars

\* C7, amended: a spot diff with u <= L, and a futures diff with u < L,
\* leaves bids, asks, lastUpdateId and needsResync unchanged.
C7_StaleIdempotent ==
    [][\A key \in DOMAIN orderBooks :
        (/\ ApplyStep(key)
         /\ \/ key[2] = "spot" /\ last'.u <= orderBooks[key].lastUpdateId
            \/ key[2] = "futures" /\ last'.u < orderBooks[key].lastUpdateId)
        => /\ SameLevelsAndId(key)
           /\ orderBooks'[key].needsResync = orderBooks[key].needsResync]_vars

\* C7 witness: a futures replica that has applied a diff just dropped a
\* diff with content and u < L as too old.
C7_Witness ==
    /\ last.op = "applyUpdate"
    /\ last.key[2] = "futures"
    /\ last.key \in DOMAIN orderBooks
    /\ last.outcome = "stale"
    /\ noted.b # <<>>
    /\ last.u < orderBooks[last.key].lastUpdateId
    /\ orderBooks[last.key].hasReceivedUpdate
    /\ ~orderBooks[last.key].needsResync

\* C8: on a freshly initialized futures replica with snapshot id L, the
\* first diff with U <= L + 1 <= u is applied whatever its pu: its levels
\* are applied, lastUpdateId becomes u, hasReceivedUpdate becomes true,
\* needsResync stays false and the call returns true.
C8_FuturesFirstEventIgnoresPu ==
    [][\A key \in DOMAIN orderBooks :
        (/\ ApplyStep(key)
         /\ key[2] = "futures"
         /\ ~orderBooks[key].hasReceivedUpdate
         /\ ~orderBooks[key].needsResync
         /\ last'.U <= orderBooks[key].lastUpdateId + 1
         /\ orderBooks[key].lastUpdateId + 1 <= last'.u)
        => /\ last'.ret
           /\ orderBooks'[key].bids =
                Slice(updateSide(orderBooks[key].bids, noted'.b, "bid"), maxLevels(key[1]))
           /\ orderBooks'[key].asks =
                Slice(updateSide(orderBooks[key].asks, noted'.a, "ask"), maxLevels(key[1]))
           /\ orderBooks'[key].lastUpdateId = last'.u
           /\ orderBooks'[key].hasReceivedUpdate
           /\ ~orderBooks'[key].needsResync]_vars

\* C8 witness: a futures diff whose pu lies beyond its own u (so pu is not
\* the id the replica held) was just applied and set the level it carried.
C8_Witness ==
    /\ last.op = "applyUpdate"
    /\ last.key[2] = "futures"
    /\ last.key \in DOMAIN orderBooks
    /\ last.ret
    /\ last.pu > last.u
    /\ last.U < last.u
    /\ orderBooks[last.key].lastUpdateId = last.u
    /\ orderBooks[last.key].bids = <<<<2, 2>>>>
    /\ ~orderBooks[last.key].needsResync

\* C9, as stated: on a futures replica that has applied its first diff, a
\* diff that is not too old and carries pu # L is refused; needsResync is
\* set exactly by the third such refusal with no applied diff in between
\* (the first two leave the replica unchanged, the third also resets the
\* counter), and every applied diff resets the counter to zero.
C9_ThirdContinuityFailureResyncs ==
    [][\A key \in DOMAIN orderBooks :
        (/\ ApplyStep(key)
         /\ key[2] = "futures"
         /\ orderBooks[key].hasReceivedUpdate
         /\ ~orderBooks[key].needsResync)
        => /\ (/\ last'.u >= orderBooks[key].lastUpdateId
               /\ last'.pu # Undefined
               /\ last'.pu # orderBooks[key].lastUpdateId)
              => /\ ~last'.ret
                 /\ rejects'[key] < 3 => orderBooks'[key] = orderBooks[key]
                 /\ rejects'[key] >= 3
                      => /\ orderBooks'[key].needsResync
                         /\ SameLevelsAndId(key)
                         /\ CountOf(futuresFailureCount', key) = 0
           /\ last'.ret => CountOf(futuresFailureCount', key) = 0]_vars

\* C10, as stated: a futures diff applied after the first applied diff
\* carries pu equal to the lastUpdateId held when it is applied; a later
\* diff without pu == L, one carrying no pu included, is not applied.
C10_LaterFuturesDiffNeedsPu ==
    [][\A key \in DOMAIN orderBooks :
        (/\ ApplyStep(key)
         /\ key[2] = "futures"
         /\ orderBooks[key].hasReceivedUpdate
         /\ last'.ret)
        => last'.pu = orderBooks[key].lastUpdateId]_vars

----------------------------------------------------------------------------
(* Properties of the level mutation, checked under SpecLevels.             *)

\* The last call applied a diff to the replica it names.
JustApplied ==
    /\ last.op = "applyUpdate"
    /\ last.ret
    /\ last.key \in DOMAIN orderBooks

StrictlyDescending(side) ==
    \A i \in 1..(Len(side) - 1) : side[i][1] > side[i + 1][1]

StrictlyAscending(side) ==
    \A i \in 1..(Len(side) - 1) : side[i][1] < side[i + 1][1]

\* 500 levels for BTCUSDT and ETHUSDT, 300 for the others, as the model
\* scales them.
LevelLimit(symbol) ==
    IF symbol \in {"BTCUSDT", "ETHUSDT"} THEN MaxLevelsMajor ELSE MaxLevelsOther

\* side is the first n levels of full, or all of full if it has fewer.
IsBestPrefix(side, full, n) ==
    /\ Len(side) = (IF Len(full) > n THEN n ELSE Len(full))
    /\ \A i \in 1..Len(side) : side[i] = full[i]

\* C4, as stated: after an applied diff whose entries all pass the
\* per-side filter, the best bid is strictly below the best ask whenever
\* both sides are non-empty.
C4_NoCrossedBook ==
    (JustApplied /\ noted.passes)
    => LET orderBook == orderBooks[last.key]
       IN  (orderBook.bids # <<>> /\ orderBook.asks # <<>>)
           => orderBook.bids[1][1] < orderBook.asks[1][1]

\* C5: after initializeOrderBook from a snapshot with distinct prices per
\* side and after every applyUpdate, diffs that repeat a price included,
\* bids are strictly descending and asks strictly ascending by price (so
\* no price is twice on a side).
C5_SidesStrictlyOrdered ==
    \A key \in DOMAIN orderBooks :
        /\ StrictlyDescending(orderBooks[key].bids)
        /\ StrictlyAscending(orderBooks[key].asks)

\* C5 witness: a diff that lists a price twice on a side, every entry
\* passing the filter, was just applied to a side that holds two levels.
C5_Witness ==
    /\ JustApplied
    /\ noted.repeats
    /\ noted.passes
    /\ Len(orderBooks[last.key].bids) >= 2

\* C6: after an applied diff each side holds at most maxLevels levels, and
\* holds the first maxLevels (the best) of what updateSide left.
C6_TruncatedToMaxLevels ==
    JustApplied
    => LET orderBook == orderBooks[last.key]
           limit == LevelLimit(last.key[1])
       IN  /\ Len(orderBook.bids) <= limit
           /\ Len(orderBook.asks) <= limit
           /\ IsBestPrefix(orderBook.bids, noted.sides.bids, limit)
           /\ IsBestPrefix(orderBook.asks, noted.sides.asks, limit)

\* C6 witness: a diff just applied to BTCUSDT left more than maxLevels bids,
\* and the replica holds exactly maxLevels of them.
C6_Witness ==
    /\ JustApplied
    /\ last.key[1] = "BTCUSDT"
    /\ last.truncated
    /\ Len(noted.sides.bids) > LevelLimit("BTCUSDT")
    /\ Len(orderBooks[last.key].bids) = LevelLimit("BTCUSDT")

----------------------------------------------------------------------------
(* Properties of the reads and of the metrics calculator, checked under    *)
(* SpecMetrics (C11, C12) and SpecCadence (C13).                           *)

\* C11: when a handler of 'orderbook:update' reads a replica that is
\* flagged needsResync or whose last write is more than 120 s old,
\* getOrderBook returns null and the handler ends there: it writes neither
\* the latest metrics nor a time-series record, and lastSaveTime stays.
C11_UnreadableReplicaAbortsMetrics ==
    [][\A slot \in DOMAIN tasks :
        (/\ tasks[slot].pc = "delay"
         /\ slot \in DOMAIN tasks' => tasks'[slot] # tasks[slot]
         /\ tasks[slot].key \in DOMAIN orderBooks
         /\ \/ orderBooks[tasks[slot].key].needsResync
            \/ now - orderBooks[tasks[slot].key].timestamp > 120000)
        => /\ last'.op = "getOrderBook"
           /\ ~last'.ret
           /\ slot \notin DOMAIN tasks'
           /\ redis'.op = "none"
           /\ redis'.core = redis.core
           /\ lastSaveTime' = lastSaveTime]_vars

\* C11 witness: the handler just read a replica that is not flagged and
\* was last written more than 120 s ago, got null and ended.
C11_Witness ==
    /\ last.op = "getOrderBook"
    /\ ~last.ret
    /\ last.key \in DOMAIN orderBooks
    /\ ~orderBooks[last.key].needsResync
    /\ now - orderBooks[last.key].timestamp > 120000
    /\ tasks = <<>>
    /\ redis.op = "none"

\* C12: while a replica is flagged needsResync, getOrderBook returns null
\* for it, every applyUpdate on it returns false and leaves bids, asks and
\* lastUpdateId as they are, and the flag of the replica goes back to false
\* only in an initializeOrderBook of its key.
C12_FlaggedUntilInitialize ==
    [][\A key \in DOMAIN orderBooks :
        orderBooks[key].needsResync
        => /\ (last'.op = "getOrderBook" /\ last'.key = key) => ~last'.ret
           /\ ApplyStep(key) => (~last'.ret /\ SameLevelsAndId(key))
           /\ (key \in DOMAIN orderBooks' /\ ~orderBooks'[key].needsResync)
              => (last'.op = "initializeOrderBook" /\ last'.key = key)]_vars

\* C12 witness: a flagged replica just ignored the next diff of its stream.
C12_Witness ==
    /\ last.op = "applyUpdate"
    /\ last.outcome = "ignored"
    /\ last.key \in DOMAIN orderBooks
    /\ orderBooks[last.key].needsResync
    /\ last.U = orderBooks[last.key].lastUpdateId + 1
    /\ noted.b # <<>>

\* C13, as stated: a core time-series write for a key comes at least
\* coreSaveIntervalMs (30000) after the core write before it, however the
\* handlers of the key's events interleave.
C13_CoreWritesIntervalApart ==
    [][(redis'.op = "core" /\ redis.core # -1 /\ tasks' # tasks)
        => now - redis.core >= 30000]_vars


----------------------------------------------------------------------------
(* The claims on the subscriptions.                                        *)

\* What became of the messages of a socket is in order: nothing was handed
\* to applyUpdate or dropped before the snapshot of the socket was installed
\* and saved, the messages handed to applyUpdate went in the order they came
\* in, and once the buffer is processed each buffered message was dropped if
\* its u is at most the lastUpdateId of the snapshot, else handed on.
InOrder(socket) ==
    /\ socket.pc \notin {"draining", "ready"} =>
            (socket.passed = <<>> /\ socket.discarded = <<>>)
    /\ \A i, j \in 1..Len(socket.passed) : i < j => socket.passed[i] < socket.passed[j]
    /\ socket.pc = "ready" =>
            \A n \in 1..Len(socket.received) :
                socket.received[n].buffered =>
                    IF socket.received[n].u <= socket.snapshotId
                    THEN /\ \E i \in 1..Len(socket.discarded) : socket.discarded[i] = n
                         /\ \A i \in 1..Len(socket.passed) : socket.passed[i] # n
                    ELSE /\ \E i \in 1..Len(socket.passed) : socket.passed[i] = n
                         /\ \A i \in 1..Len(socket.discarded) : socket.discarded[i] # n

\* C15: a message that a socket receives before its snapshot is installed and
\* saved is appended to the buffer and leaves the replicas alone; after that
\* the buffered messages are processed in the order of arrival, those with
\* u <= snapshot.lastUpdateId dropped and the others handed to applyUpdate,
\* so that none reaches the replica before initializeOrderBook or out of order.
C15_BufferedUntilSnapshotThenInOrder ==
    [][/\ \A id \in DOMAIN sockets' : InOrder(sockets'[id])
       /\ \A id \in DOMAIN sockets \cap DOMAIN sockets' :
            (/\ sockets[id].pc \in {"snapshot", "saving"}
             /\ Len(sockets'[id].received) = Len(sockets[id].received) + 1)
            => /\ Len(sockets'[id].updateBuffer) = Len(sockets[id].updateBuffer) + 1
               /\ sockets'[id].updateBuffer[Len(sockets'[id].updateBuffer)].u
                      = sockets'[id].received[Len(sockets'[id].received)].u
               /\ orderBooks' = orderBooks
               /\ sockets'[id].passed = <<>>]_vars

\* C15 witness: the buffer of a socket held a stale and a fresh message; the
\* stale one was dropped, the fresh one was applied.
C15_Witness ==
    \E id \in DOMAIN sockets :
        /\ sockets[id].pc = "ready"
        /\ Len(sockets[id].received) = 2
        /\ sockets[id].received[1].buffered /\ sockets[id].received[2].buffered
        /\ sockets[id].discarded = <<1>>
        /\ sockets[id].passed = <<2>>
        /\ sockets[id].appliedCount = 1

\* C16: when the processing of the buffer ends and a buffered message was
\* applied, the pair is alive and not in the failed list.
C16_AliveAfterDrain ==
    [][\A id \in DOMAIN sockets :
        (/\ sockets[id].pc = "draining"
         /\ sockets[id].updateBuffer = <<>>
         /\ sockets[id].appliedCount >= 1
         /\ sockets' # sockets)
        => /\ IsAlive(websocketService', sockets[id].key)
           /\ ~Has(websocketService'.failedSubs, sockets[id].key)]_vars

\* C17: the step in which a socket closes leaves the pair not alive, without
\* ping timer and in the failed list, and makes no socket, no connection
\* attempt and no call of subscribeOrderBook.
C17_CloseMarksAndQueuesOnly ==
    [][\A id \in DOMAIN sockets :
        (/\ sockets[id].readyState # "CLOSED"
         /\ id \in DOMAIN sockets' => sockets'[id].readyState = "CLOSED")
        => /\ ~IsAlive(websocketService', sockets[id].key)
           /\ sockets[id].key \notin DOMAIN websocketService'.pingTimers
           /\ Has(websocketService'.failedSubs, sockets[id].key)
           /\ DOMAIN sockets' \subseteq DOMAIN sockets
           /\ websocketService'.connectionAttempts = websocketService.connectionAttempts
           /\ sockets[id].key \notin DOMAIN websocketService'.connections
           /\ waits' = waits]_vars

\* C17 witness: the stream of a pair that was alive (a live message was
\* applied after the subscription) has closed.
C17_Witness ==
    /\ noted.op = "close"
    /\ sockets = <<>>
    /\ Has(websocketService.subscriptionStatus, noted.key)
    /\ Entry(websocketService.subscriptionStatus, noted.key).lastUpdate
           > Entry(websocketService.subscriptionStatus, noted.key).subscriptionTime
    /\ ~IsAlive(websocketService, noted.key)
    /\ Has(websocketService.failedSubs, noted.key)

\* The attempts among the noted ones that lie in the minute before the time.
InWindow(times, time) ==
    {i \in 1..Len(times) : times[i] > time - 60000 /\ times[i] <= time}

\* C18: a call of subscribeOrderBook made when the attempts let through in the
\* last 60 s are at least maxConnectionsPerMinute returns false at once, puts
\* the pair in the failed list and leaves the sockets, the connections and the
\* replicas as they are; and no window of 60 s holds more attempts let
\* through than maxConnectionsPerMinute.
C18_RateLimitRefuses ==
    [][/\ (/\ noted'.op = "subscribeOrderBook"
           /\ now' = now
           /\ Cardinality(InWindow(noted.admitted, now)) >= maxConnectionsPerMinute)
          => /\ noted'.ret = "limited"
             /\ Has(websocketService'.failedSubs, noted'.key)
             /\ sockets' = sockets
             /\ websocketService'.connections = websocketService.connections
             /\ orderBooks' = orderBooks
             /\ waits' = waits
       /\ \A i \in 1..Len(noted'.admitted) :
             Cardinality(InWindow(noted'.admitted, noted'.admitted[i]))
                <= maxConnectionsPerMinute]_vars

\* C18 witness: a call was refused while the pair had a connection and a
\* replica.
C18_Witness ==
    /\ noted.op = "subscribeOrderBook"
    /\ noted.ret = "limited"
    /\ noted.key \in DOMAIN websocketService.connections
    /\ noted.key \in DOMAIN orderBooks
    /\ Has(websocketService.failedSubs, noted.key)
    /\ Cardinality(InWindow(noted.admitted, now)) = maxConnectionsPerMinute

\* C14: no pair whose stream closed has gone through two ticks of the health
\* check without being, at some moment since the close, alive or in the failed
\* list with a retryCount of at least 1.
C14_RecoveredWithinTwoTicks ==
    \A key \in DOMAIN noted.closed : noted.closed[key] < 2

----------------------------------------------------------------------------
(* The claims on the health check.                                         *)

\* A tick of the health check has run to its end.
TickOver == health.pc = "idle" /\ health.at # Epoch

\* The places of the statuses the scan read as never alive or as stalled: not
\* alive and subscribed for more than 60 s, or alive and updated more than 60 s
\* ago.
FoundBroken ==
    {i \in 1..Len(health.scanned) :
        IF health.scanned[i].isAlive THEN health.scanned[i].ageSeconds > 60
        ELSE health.scanned[i].subscriptionAgeSeconds > 60}

Times(keys, key) == Cardinality({i \in 1..Len(keys) : keys[i] = key})

C20_OneRemedyOfEachKind ==
    /\ Len(health.did.retry) <= 1
    /\ Len(health.did.neverAlive) <= 1
    /\ Len(health.did.stall) <= 1
    /\ Len(health.did.resync) <= 1

\* C20 witness: a tick did a remedy of three kinds, and left a second entry of
\* the failed list that was due as well.
C20_Witness ==
    /\ TickOver
    /\ Len(health.did.retry) = 1
    /\ Len(health.did.neverAlive) + Len(health.did.stall) = 1
    /\ Len(health.did.resync) = 1
    /\ \E i \in 1..Len(websocketService.failedSubs) :
          /\ websocketService.failedSubs[i].key # health.did.retry[1]
          /\ now - websocketService.failedSubs[i].lastRetry >= 5000

----------------------------------------------------------------------------
(* Retry: one pair under the two timers, with a second socket for the      *)
(* subscription that replaces one that is still waiting.  The clock is     *)
(* followed over one step of a minute, taken when no subscription waits,   *)
(* after which both timers are due; no subscription is more than a minute  *)
(* old, so that the second part of the health check finds nothing to       *)
(* re-subscribe, and no wait reaches its timeout.                          *)

\* No timer has been due yet, and no subscription waits for its
\* initialization: the clock can step.
BeforeTimers == now = Epoch /\ waits = {}

NextRetry ==
    \/ \E id \in ScanSockets : DrainStep(id)
    \/ \E id \in ScanSockets : DrainDone(id)
    \/ RetryFailed(ScanSockets) /\ BoundedService'
    \/ ScanStatus
    \/ ScanReplicas
    \/ Resync
    \/ HealthCheckEnds
    \/ ~Busy /\ HealthCheck
    \/ ~Busy /\ AutoRetry(ScanSockets) /\ BoundedService'
    \/ ~Busy /\ Startup(HealthKeys, ScanSockets) /\ BoundedService'
    \/ ~Busy /\ \E id \in ScanSockets : SocketOpen(id)
    \/ ~Busy /\ \E id \in ScanSockets : SnapshotReturns(id, BufferSnapshots)
    \/ ~Busy /\ \E id \in ScanSockets : SnapshotSaved(id)
    \/ ~Busy /\ \E id \in ScanSockets : SocketMessage(id, HealthDiffs(id))
    \/ ~Busy /\ \E id \in ScanSockets : SocketClose(id) /\ BoundedService'
    \/ ~Busy /\ WaitSucceeds
    \/ ~Busy /\ ResyncSnapshotReturns(HealthKeys, BufferSnapshots)
    \/ ~Busy /\ ResyncSaved(HealthKeys)
    \/ ~Busy /\ BeforeTimers /\ Advance(HealthSteps)

SpecRetry == InitService /\ [][NextRetry]_vars

----------------------------------------------------------------------------
(* The claims on what runs at the same time.                               *)

\* The sockets whose 'open' handler is between clearing nothing, fetching the
\* snapshot and initializeOrderBook for key.
Initializing(key) ==
    {id \in DOMAIN sockets :
        sockets[id].key = key /\ sockets[id].pc \in {"snapshot", "saving"}}

\* C23: for any key at most one initialization is in progress: no triggerResync
\* runs for a key while the 'open' handler of a subscription of that key
\* fetches its snapshot or initializes the replica, and no two such handlers
\* run for one key.
C23_OneInitializationPerKey ==
    \A key \in BufferKeys :
        Cardinality(Initializing(key))
            + (IF key \in DOMAIN websocketService.resyncInProgress THEN 1 ELSE 0) <= 1

\* The calls of subscribeOrderBook made by a timer that are in
\* waitForInitialization, before its timeout.
InFlight ==
    {wait \in waits : /\ wait.caller \in {"health", "auto"}
                      /\ now - wait.start < InitializationTimeout}

\* C21: the two timers never have two retries or re-subscriptions in flight at
\* the same time: at most one subscribeOrderBook called by the health check
\* or by the timer of startAutoRetry awaits its initialization.
C21_OneSupervisorSubscribeInFlight == Cardinality(InFlight) <= 1

\* The key retried by the step was last retried at least the delay ago.
RetriedAfterDelay ==
    noted'.key \in DOMAIN noted.retried => now - noted.retried[noted'.key] >= RetryDelay

\* The retry of the step has set lastRetry of the entry it retried, if the
\* entry is still in the failed list.
RetryStamped ==
    Has(websocketService'.failedSubs, noted'.key)
        => Entry(websocketService'.failedSubs, noted'.key).lastRetry = now

\* C22: no key is retried from the failed list less than 5 s after the
\* previous retry of that key, and every retry sets lastRetry of the entry
\* before a later tick can select it.
C22_RetriesFiveSecondsApart ==
    [][RetryStep(noted'.op) => RetriedAfterDelay /\ RetryStamped]_vars

----------------------------------------------------------------------------
(* The combined stream of the futures: one socket for all the symbols.     *)

\* const key = 'futures:combined': the key of the connection and of its ping
\* timer
CombinedKey == Key("futures", "combined")

\* addToFailedQueue('combined', 'futures', ...): the key in failedSubs
CombinedEntry == Key("combined", "futures")

\* The symbols of the stream, in the order of the list.
CombinedSymbols == <<"BTCUSDT", "ETHUSDT">>

\* new WebSocket(wsUrl) with symbols and initializedSymbols of the call, and
\* who called.
CombinedSocket(symbols, caller) ==
    Socket(CombinedKey) @@
        [symbols |-> symbols, todo |-> symbols, initialized |-> {}, caller |-> caller]

\* The sockets that are still of use: not closed, or in the loop of the 'open'
\* handler, or read by a call that waits.
CollectCombined(socks, pending) ==
    [id \in {i \in DOMAIN socks :
                \/ ~Gone(socks[i])
                \/ \E wait \in pending : wait.id = i} |-> socks[id]]

\* subscribeFuturesCombined(symbols) up to its first await
subscribeFuturesCombined(this, caller, symbols, ids) ==
    LET connected == CombinedKey \in DOMAIN this.connections
        closing == IF connected THEN Closing(sockets, this.connections[CombinedKey])
                   ELSE sockets
        dropped == [this EXCEPT !.connections = MapDelete(@, CombinedKey),
                                !.pingTimers = IF connected THEN MapDelete(@, CombinedKey)
                                               ELSE @]
        recent == RecentAttempts(this.connectionAttempts)
        free == ids \ DOMAIN closing
        id == CHOOSE i \in free : \A j \in free : i <= j
    IN  IF RateLimited(recent)
        THEN /\ websocketService' =
                    addToFailedQueue([dropped EXCEPT !.connectionAttempts = recent],
                                     CombinedEntry)
             /\ sockets' = closing
             /\ UNCHANGED waits
        ELSE /\ free # {}
             /\ sockets' = MapSet(closing, id, CombinedSocket(symbols, caller))
             /\ websocketService' =
                    [dropped EXCEPT !.connectionAttempts = Append(recent, now),
                                    !.connections = MapSet(@, CombinedKey, id)]
             /\ waits' = waits \cup {[key |-> CombinedKey, caller |-> caller,
                                      start |-> now, id |-> id]}

\* What subscribeFuturesCombined returns at once: false by the rate limit, or
\* nothing yet.
CombinedReturns ==
    IF RateLimited(RecentAttempts(websocketService.connectionAttempts)) THEN "limited"
    ELSE "pending"

\* The statuses with isAlive = false for the symbols that have one.
MarkedDead(statuses, symbols) ==
    [i \in 1..Len(statuses) |->
        IF \E j \in 1..Len(symbols) : statuses[i].key = Key(symbols[j], "futures")
        THEN [statuses[i] EXCEPT !.isAlive = FALSE]
        ELSE statuses[i]]

\* A close handler that leaves the statuses as they are.
combinedCloseHandlerKeepsAlive(this, symbols) ==
    addToFailedQueue([this EXCEPT !.connections = MapDelete(@, CombinedKey),
                                  !.pingTimers = MapDelete(@, CombinedKey)],
                     CombinedEntry)

\* ws.on('close') of the combined stream
combinedCloseHandler(this, symbols) ==
    addToFailedQueue([this EXCEPT !.connections = MapDelete(@, CombinedKey),
                                  !.pingTimers = MapDelete(@, CombinedKey),
                                  !.subscriptionStatus = MarkedDead(@, symbols)],
                     CombinedEntry)

\* ws.on('open'): startPingTimer, then the loop over the symbols up to its
\* first await
CombinedOpen(id) ==
    /\ id \in DOMAIN sockets
    /\ sockets[id].readyState = "CONNECTING"
    /\ sockets' = [sockets EXCEPT ![id].readyState = "OPEN", ![id].pc = "snapshot"]
    /\ websocketService' =
           [websocketService EXCEPT !.pingTimers = MapSet(@, CombinedKey, id)]
    /\ UNCHANGED <<managerVars, now, metricsVars, apiVars, waits, health>>
    /\ Note("open", CombinedKey, "none")

\* The loop: getFuturesDepth(symbol) returned, initializeOrderBook up to its
\* await
CombinedSnapshotReturns(id, snapshots) ==
    /\ id \in DOMAIN sockets
    /\ sockets[id].pc = "snapshot"
    /\ \E snapshot \in snapshots :
           initializeOrderBook(Head(sockets[id].todo), "futures", snapshot)
    /\ sockets' = [sockets EXCEPT ![id].pc = "saving"]
    /\ UNCHANGED <<now, metricsVars, apiVars, websocketService, waits, health>>
    /\ Note("initializeOrderBook", Key(Head(sockets[id].todo), "futures"), "none")

\* Where the loop is after the symbol at the head of todo.
NextSymbol(socket) ==
    [socket EXCEPT !.todo = Tail(@),
                   !.pc = IF Tail(socket.todo) = <<>> THEN "ready" ELSE "snapshot"]

\* The loop: getFuturesDepth(symbol) threw or returned nothing; the next
\* symbol
CombinedSnapshotFails(id) ==
    /\ id \in DOMAIN sockets
    /\ sockets[id].pc = "snapshot"
    /\ sockets' = CollectCombined([sockets EXCEPT ![id] = NextSymbol(@)], waits)
    /\ UNCHANGED <<managerVars, now, metricsVars, apiVars, websocketService, waits, health>>
    /\ Note("snapshotFailed", Key(Head(sockets[id].todo), "futures"), "none")

\* The loop: initializeOrderBook returned; initializedSymbols.add(symbol), the
\* status of the symbol, the pause of 500 ms and the next symbol
CombinedSnapshotSaved(id) ==
    /\ id \in DOMAIN sockets
    /\ sockets[id].pc = "saving"
    /\ LET symbol == Head(sockets[id].todo)
       IN  /\ sockets' = CollectCombined(
                  [sockets EXCEPT ![id] =
                      [NextSymbol(@) EXCEPT !.initialized = @ \cup {symbol}]], waits)
           /\ websocketService' =
                  [websocketService EXCEPT !.subscriptionStatus =
                      Put(@, [key |-> Key(symbol, "futures"), isAlive |-> FALSE,
                              lastUpdate |-> now, subscriptionTime |-> now])]
           /\ Note("snapshotReady", Key(symbol, "futures"), "none")
    /\ UNCHANGED <<managerVars, now, metricsVars, apiVars, waits, health>>

\* Largest update id a replica of the combined stream reaches.
MaxCombinedId == 2

\* A diff of a symbol that has no replica.
CombinedFirstDiff == [U |-> 1, u |-> 1, pu |-> 0, b |-> <<<<Str(2), Str(2)>>>>, a |-> <<>>]

\* The stream of a symbol: the diff that follows its replica.
CombinedDiffs(symbol) ==
    LET key == Key(symbol, "futures")
        L == orderBooks[key].lastUpdateId
    IN  IF key \in DOMAIN orderBooks /\ L < MaxCombinedId
        THEN {[U |-> L + 1, u |-> L + 1, pu |-> L, b |-> <<<<Str(2), Str(2)>>>>, a |-> <<>>]}
        ELSE {}

\* A 'message' handler of the combined stream without the test of
\* initializedSymbols.
CombinedMessagePassesAll(id) ==
    /\ id \in DOMAIN sockets
    /\ sockets[id].readyState = "OPEN"
    /\ \E i \in 1..Len(sockets[id].symbols) :
        LET symbol == sockets[id].symbols[i]
            key == Key(symbol, "futures")
        IN  \E update \in CombinedDiffs(symbol) \cup
                          {d \in {CombinedFirstDiff} : key \notin DOMAIN orderBooks} :
                /\ handleOrderBookUpdate(key, update)
                /\ UNCHANGED sockets
                /\ publishOrderBookUpdate(key)
                /\ UNCHANGED apiVars
                /\ UNCHANGED <<now, waits, health>>
                /\ Note("handleOrderBookUpdate", key,
                        IF last'.op = "applyUpdate" /\ last'.ret THEN "true" ELSE "false")

\* ws.on('message') of the combined stream: a message of a symbol in
\* initializedSymbols goes to handleOrderBookUpdate, a message of another
\* symbol of the stream is left aside
CombinedMessage(id) ==
    /\ id \in DOMAIN sockets
    /\ sockets[id].readyState = "OPEN"
    /\ \E i \in 1..Len(sockets[id].symbols) :
        LET symbol == sockets[id].symbols[i]
            key == Key(symbol, "futures")
        IN  IF symbol \in sockets[id].initialized
            THEN \E update \in CombinedDiffs(symbol) :
                    /\ handleOrderBookUpdate(key, update)
                    /\ sockets' = [sockets EXCEPT ![id].appliedCount =
                                      IF Outcome("futures", orderBooks[key],
                                                 FailCount(key), update) = "applied"
                                      THEN @ + 1 ELSE @]
                    /\ publishOrderBookUpdate(key)
                    /\ UNCHANGED apiVars
                    /\ UNCHANGED <<now, waits, health>>
                    /\ Note("handleOrderBookUpdate", key,
                            IF last'.op = "applyUpdate" /\ last'.ret THEN "true" ELSE "false")
            ELSE /\ UNCHANGED <<managerVars, now, metricsVars, apiVars, websocketService,
                               sockets, waits, health>>
                 /\ Note("dropped", key, "none")

\* ws.on('error') of the combined stream
CombinedError(id) ==
    /\ id \in DOMAIN sockets
    /\ sockets[id].readyState \in {"CONNECTING", "OPEN"}
    /\ websocketService' =
           addToFailedQueue(
               [websocketService EXCEPT
                   !.subscriptionStatus = MarkedDead(@, sockets[id].symbols)],
               CombinedEntry)
    /\ UNCHANGED <<managerVars, now, metricsVars, apiVars, sockets, waits, health>>
    /\ Note("error", CombinedKey, "none")

\* The close event and ws.on('close') of the combined stream
CombinedClose(id) ==
    /\ id \in DOMAIN sockets
    /\ sockets[id].readyState # "CLOSED"
    /\ sockets' = CollectCombined([sockets EXCEPT ![id].readyState = "CLOSED"], waits)
    /\ websocketService' = combinedCloseHandler(websocketService, sockets[id].symbols)
    /\ UNCHANGED <<managerVars, now, metricsVars, apiVars, waits, health>>
    /\ Note("close", CombinedKey, "none")

\* subscribeFuturesCombined: initializedSymbols.size > 0, return true
CombinedWaitSucceeds ==
    \E wait \in waits :
        /\ sockets[wait.id].initialized # {}
        /\ waits' = waits \ {wait}
        /\ sockets' = CollectCombined(sockets, waits \ {wait})
        /\ UNCHANGED <<managerVars, now, metricsVars, apiVars, websocketService, health>>
        /\ Note("subscribed", CombinedKey, "true")

\* subscribeFuturesCombined: 30000 ms are over with no symbol initialized,
\* return false
CombinedWaitTimesOut ==
    \E wait \in waits :
        /\ now - wait.start >= InitializationTimeout
        /\ sockets[wait.id].initialized = {}
        /\ waits' = waits \ {wait}
        /\ sockets' = CollectCombined(sockets, waits \ {wait})
        /\ websocketService' = addToFailedQueue(websocketService, CombinedEntry)
        /\ UNCHANGED <<managerVars, now, metricsVars, apiVars, health>>
        /\ Note("timeout", CombinedKey, "false")

\* startup: await websocketService.subscribeFuturesCombined(futuresSymbols)
StartupCombined(symbols, ids) ==
    /\ health.autoAt = Epoch
    /\ websocketService = NoService
    /\ sockets = <<>>
    /\ subscribeFuturesCombined(websocketService, "api", symbols, ids)
    /\ UNCHANGED <<managerVars, now, metricsVars, apiVars, health>>
    /\ Note("subscribeFuturesCombined", CombinedKey, CombinedReturns)

\* The callback of startAutoRetry's timer when the entry it takes is that of
\* the combined stream: await this.subscribeFuturesCombined(futuresSymbols)
AutoRetryCombined(symbols, ids) ==
    /\ now - health.autoAt >= AutoRetryInterval
    /\ health' = [health EXCEPT !.autoAt = now]
    /\ LET this == websocketService
           targets == RetryTargets(this.failedSubs)
           retried == [this EXCEPT !.failedSubs =
                          Put(@, [Entry(@, CombinedEntry) EXCEPT !.lastRetry = now])]
       IN  IF targets = <<>>
           THEN /\ UNCHANGED <<websocketService, sockets, waits>>
                /\ Note("autoRetry", <<"", "">>, "none")
           ELSE /\ Head(targets) = CombinedEntry
                /\ subscribeFuturesCombined(retried, "auto", symbols, ids)
                /\ Note("subscribeFuturesCombined", CombinedEntry, CombinedReturns)
    /\ UNCHANGED <<managerVars, now, metricsVars, apiVars>>

----------------------------------------------------------------------------
(* Combined: the combined stream under the timer of startAutoRetry.        *)

CombinedSockets == {1}

NextCombined ==
    \/ StartupCombined(CombinedSymbols, CombinedSockets)
    \/ AutoRetryCombined(CombinedSymbols, CombinedSockets) /\ BoundedService'
    \/ \E id \in CombinedSockets : CombinedOpen(id)
    \/ \E id \in CombinedSockets : CombinedSnapshotReturns(id, BufferSnapshots)
    \/ \E id \in CombinedSockets : CombinedSnapshotFails(id)
    \/ \E id \in CombinedSockets : CombinedSnapshotSaved(id)
    \/ \E id \in CombinedSockets : CombinedMessage(id)
    \/ \E id \in CombinedSockets : CombinedError(id) /\ BoundedService'
    \/ \E id \in CombinedSockets : CombinedClose(id) /\ BoundedService'
    \/ CombinedWaitSucceeds
    \/ CombinedWaitTimesOut /\ BoundedService'
    \/ Advance(HealthSteps)

SpecCombined == InitService /\ [][NextCombined]_vars

----------------------------------------------------------------------------
(* The claims on the combined stream.                                      *)

\* The entries of the failed list under a key.
EntriesOf(entries, key) == {i \in 1..Len(entries) : entries[i].key = key}

\* C24: when the combined stream closes, isAlive is false for every symbol of
\* the stream that has a status, the failed list holds exactly one entry of
\* the stream, under the key of 'combined' and 'futures', and the close has
\* added no entry of a symbol.
C24_CombinedCloseMarksAllQueuesOne ==
    [][(noted'.op = "close" /\ noted'.key = CombinedKey) =>
          /\ \A i \in 1..Len(CombinedSymbols) :
                ~IsAlive(websocketService', Key(CombinedSymbols[i], "futures"))
          /\ Cardinality(EntriesOf(websocketService'.failedSubs, CombinedEntry)) = 1
          /\ Without(websocketService'.failedSubs, CombinedEntry)
                = Without(websocketService.failedSubs, CombinedEntry)]_vars

\* C24 witness: the combined stream has closed after a diff of one of its
\* symbols was applied, and the symbol is marked as not alive.
C24_Witness ==
    /\ noted.op = "close"
    /\ noted.key = CombinedKey
    /\ Has(websocketService.failedSubs, CombinedEntry)
    /\ \E i \in 1..Len(CombinedSymbols) :
          LET key == Key(CombinedSymbols[i], "futures")
          IN  /\ Has(websocketService.subscriptionStatus, key)
              /\ ~IsAlive(websocketService, key)
              /\ key \in DOMAIN orderBooks
              /\ orderBooks[key].hasReceivedUpdate

\* C25: when a diff is applied for a symbol of a combined stream that a retry
\* has re-established, the entry of 'combined' and 'futures' is no longer in
\* the failed list.
C25_CombinedEntryRemovedWhenApplied ==
    [][\A id \in DOMAIN sockets \cap DOMAIN sockets' :
          (/\ sockets[id].caller = "auto"
           /\ sockets'[id].appliedCount > sockets[id].appliedCount)
              => ~Has(websocketService'.failedSubs, CombinedEntry)]_vars

----------------------------------------------------------------------------
(* BinanceAPI: the REST calls, the ban of a 418 and the pause of a 429.    *)

\* The requests followed at the same time.
MaxRequests == 2

\* The HTTP status of a response.
ApiStatuses == {200, 400, 418, 429}

\* The retry-after header of a response, in seconds, or none.
RetryAfters == {Undefined, 30}

ApiMethods == {"getSpotDepth", "getFuturesDepth", "getFutures24hVolume", "getTop24hVolume"}

ApiSteps == {30000}

\* retryAfter || parseInt(error.response.headers['retry-after']) || 60, with
\* no retryAfter passed
RetryAfterSeconds(header) ==
    IF header = Undefined THEN 60 ELSE IF header = 0 THEN 60 ELSE header

\* canMakeRequest(): it throws
Refuses(this) ==
    IF this.isBlocked THEN TRUE
    ELSE this.rateLimitPauseUntil # 0 /\ now < this.rateLimitPauseUntil

\* handleRateLimitError(error), the fields of the instance; status is that of
\* error.response
handleRateLimitError(this, status, header) ==
    IF status = 418 THEN [this EXCEPT !.isBlocked = TRUE]
    ELSE IF status = 429
         THEN [this EXCEPT !.rateLimitPauseUntil = now + RetryAfterSeconds(header) * 1000]
    ELSE this

\* What the specification of the API notes of the step, and what the
\* responses so far ask for: banned since a 418 was received, pausedTo the
\* instant the last 429 asks to wait for (0: none), both until a reset.
NoApiNote == [op |-> "none", method |-> "none", ret |-> "none",
              banned |-> FALSE, pausedTo |-> 0]

ApiNote(op, method, ret, header) ==
    noted' = [op |-> op, method |-> method, ret |-> ret,
              banned |-> IF op = "reset" THEN FALSE
                         ELSE IF op = "response" /\ ret = 418 THEN TRUE
                         ELSE noted.banned,
              pausedTo |-> IF op = "reset" THEN 0
                           ELSE IF op = "response" /\ ret = 429
                                THEN now + (IF header = Undefined THEN 60 ELSE header) * 1000
                           ELSE noted.pausedTo]

\* A request on the wire, under the lowest free number.
Issued(method, parent) ==
    LET free == (1..MaxRequests) \ {request.id : request \in requests}
    IN  [id |-> CHOOSE i \in free : \A j \in free : i <= j,
         method |-> method, parent |-> parent]

\* A method is called: canMakeRequest(), then axios.get up to its await
ApiCall(methods) ==
    \E method \in methods :
        /\ IF Refuses(binanceAPI)
           THEN /\ UNCHANGED requests
                /\ ApiNote("call", method, "refused", Undefined)
           ELSE /\ Cardinality(requests) < MaxRequests
                /\ requests' = requests \cup {Issued(method, "none")}
                /\ ApiNote("call", method, "issued", Undefined)
        /\ UNCHANGED <<managerVars, now, metricsVars, serviceVars, binanceAPI>>

\* The response of a request: the rest of the method that awaited it
ApiResponse(statuses, headers) ==
    \E request \in requests, status \in statuses, header \in headers :
        LET this == binanceAPI
            others == requests \ {request}
        IN  /\ IF request.method = "getFutures24hVolume"
               THEN \* catch: return {}
                    /\ UNCHANGED binanceAPI
                    /\ requests' = others
               ELSE IF status = 200
               THEN /\ UNCHANGED binanceAPI
                    /\ requests' =
                           IF request.method = "getTop24hVolume" /\ ~Refuses(this)
                           THEN \* await this.getFutures24hVolume()
                                others \cup {[id |-> request.id,
                                              method |-> "getFutures24hVolume",
                                              parent |-> "getTop24hVolume"]}
                           ELSE others
               ELSE IF request.method = "getFuturesDepth" /\ status = 400
               THEN \* return null
                    /\ UNCHANGED binanceAPI
                    /\ requests' = others
               ELSE /\ binanceAPI' = handleRateLimitError(this, status, header)
                    /\ requests' = others
            /\ ApiNote("response", request.method, status, header)
            /\ UNCHANGED <<managerVars, now, metricsVars, serviceVars>>

\* resetBlockStatus()
ApiReset ==
    /\ binanceAPI' = [binanceAPI EXCEPT !.isBlocked = FALSE, !.rateLimitPauseUntil = 0]
    /\ ApiNote("reset", "none", "none", Undefined)
    /\ UNCHANGED <<managerVars, now, metricsVars, serviceVars, requests>>

\* Time passes.
ApiAdvance(steps) ==
    \E d \in steps :
        /\ now + d <= Epoch + MaxNow
        /\ now' = now + d
        /\ noted' = [noted EXCEPT !.op = "advance", !.method = "none", !.ret = "none"]
        /\ UNCHANGED <<managerVars, metricsVars, serviceVars, apiVars>>

InitApi ==
    /\ orderBooks = <<>>
    /\ futuresFailureCount = <<>>
    /\ last = NoCall
    /\ noted = NoApiNote
    /\ rejects = <<>>
    /\ now = Epoch
    /\ lastSaveTime = <<>>
    /\ lastSave = <<>>
    /\ tasks = <<>>
    /\ redis = NoWrites
    /\ websocketService = NoService
    /\ sockets = <<>>
    /\ waits = {}
    /\ health = NoTick
    /\ binanceAPI = NoApi
    /\ requests = {}

NextApi ==
    \/ ApiCall(ApiMethods)
    \/ ApiResponse(ApiStatuses, RetryAfters)
    \/ ApiReset
    \/ ApiAdvance(ApiSteps)

SpecApi == InitApi /\ [][NextApi]_vars

\* C26: once a REST call has received HTTP 418 the flag isBlocked is set, and
\* until resetBlockStatus is called no request is issued; nothing but
\* resetBlockStatus clears the flag.
C26_BannedUntilReset ==
    [][/\ noted'.banned => binanceAPI'.isBlocked
       /\ noted.banned => requests' \subseteq requests
       /\ (binanceAPI.isBlocked /\ ~binanceAPI'.isBlocked) => noted'.op = "reset"]_vars

\* C27: after a REST call has received HTTP 429, rateLimitPauseUntil is the
\* instant its retry-after (60 s without one) asks to wait for; before that
\* instant no request is issued, and from it on a call is issued again (if
\* no 418 was received).
C27_PausedUntilRetryAfter ==
    [][/\ noted'.pausedTo # 0 => binanceAPI'.rateLimitPauseUntil = noted'.pausedTo
       /\ (noted.pausedTo # 0 /\ now < noted.pausedTo) => requests' \subseteq requests
       /\ (/\ noted'.op = "call"
           /\ noted.pausedTo # 0
           /\ now >= noted.pausedTo
           /\ ~noted.banned) => noted'.ret = "issued"]_vars

----------------------------------------------------------------------------
(* The claim on the listener of 'orderbook:update'.                        *)

\* The handlers of the events of key that are in their timer of 100 ms, the
\* computation still to come.
Scheduled(key) == {slot \in DOMAIN tasks : tasks[slot].key = key /\ tasks[slot].pc = "delay"}

\* C28: the computation of the metrics is debounced per key: the events of a
\* key that arrive while a computation of the key is scheduled start no
\* computation of their own, so that at most one is scheduled per key.
C28_OneComputationScheduledPerKey ==
    \A key \in MetricsKeys : Cardinality(Scheduled(key)) <= 1

----------------------------------------------------------------------------
(* Snapshot: a replica is initialized again and again, over what the diffs *)
(* and markOutOfSync made of the one before.                               *)

\* Largest lastUpdateId of a snapshot of this specification.
MaxSnapshotId == 1

\* The snapshots of LevelSnapshots, at every id.
SnapshotsAt(symbol) ==
    {[snapshot EXCEPT !.lastUpdateId = id] :
        snapshot \in LevelSnapshots(symbol), id \in 0..MaxSnapshotId}

\* Whether side holds the levels as numbers, each as often as levels has it.
SameLevels(side, levels) ==
    /\ Len(side) = Len(levels)
    /\ \A i \in 1..Len(levels) :
           Cardinality({j \in 1..Len(side) : side[j] = ParseLevels(levels)[i]})
               = Cardinality({j \in 1..Len(levels) : levels[j] = levels[i]})

\* What initializeOrderBook finds at the key: no replica, a replica, or a
\* used one, which took a diff, was marked out of sync and has other bids
\* and another id than the snapshot brings.
Found(key, snapshot) ==
    IF key \notin DOMAIN orderBooks THEN "nothing"
    ELSE IF /\ orderBooks[key].hasReceivedUpdate
            /\ orderBooks[key].needsResync
            /\ orderBooks[key].lastUpdateId # snapshot.lastUpdateId
            /\ ~SameLevels(orderBooks[key].bids, snapshot.bids)
         THEN "used"
    ELSE "replica"

\* initializeOrderBook, on a pair with or without a replica; noted keeps
\* the snapshot and what the call found at the key.
InitializeSnapshot ==
    \E key \in LevelKeys :
        \E snapshot \in SnapshotsAt(key[1]) :
            /\ DOMAIN orderBooks \subseteq {key}
            /\ initializeOrderBook(key[1], key[2], snapshot)
            /\ noted' = [snapshot |-> snapshot, found |-> Found(key, snapshot)]
            /\ UNCHANGED <<now, metricsVars, serviceVars, apiVars>>

\* The next diff of the stream.
ApplyUpdateSnapshot ==
    \E key \in LevelKeys :
        \E update \in LevelDiffs(key) :
            /\ applyUpdate(key[1], key[2], update)
            /\ noted' = Nothing
            /\ UNCHANGED <<now, metricsVars, serviceVars, apiVars>>

NextSnapshot ==
    \/ InitializeSnapshot
    \/ ApplyUpdateSnapshot
    \/ MarkOutOfSync(LevelKeys)

SpecSnapshot == Init /\ [][NextSnapshot]_vars

----------------------------------------------------------------------------
(* The claim on initializeOrderBook.                                       *)

Descending(side) == \A i, j \in 1..Len(side) : i < j => side[i][1] >= side[j][1]

Ascending(side) == \A i, j \in 1..Len(side) : i < j => side[i][1] <= side[j][1]

\* C29: right after initializeOrderBook(key, snapshot), no diff applied, the
\* replica of the key holds exactly the levels of the snapshot, bids
\* descending and asks ascending, lastUpdateId = snapshot.lastUpdateId,
\* hasReceivedUpdate = false and needsResync = false, whatever replica the
\* key had before.
C29_InitializeYieldsSnapshot ==
    last.op = "initializeOrderBook" =>
        LET orderBook == orderBooks[last.key]
            snapshot == noted.snapshot
        IN  /\ SameLevels(orderBook.bids, snapshot.bids)
            /\ SameLevels(orderBook.asks, snapshot.asks)
            /\ Descending(orderBook.bids)
            /\ Ascending(orderBook.asks)
            /\ orderBook.lastUpdateId = snapshot.lastUpdateId
            /\ ~orderBook.hasReceivedUpdate
            /\ ~orderBook.needsResync

\* C29 witness: a snapshot that lists two bids in ascending order replaces
\* a replica that had taken a diff, was marked out of sync and held other
\* bids at another id.
C29_Witness ==
    /\ last.op = "initializeOrderBook"
    /\ noted.found = "used"
    /\ Len(noted.snapshot.bids) = 2
    /\ noted.snapshot.bids[1][1].val < noted.snapshot.bids[2][1].val

----------------------------------------------------------------------------
(* Round trip: a diff that brings one new price to a side, then the diff   *)
(* that takes the price away.                                              *)

RoundTripPrices == 2..5

\* One side of a REST snapshot, as SnapshotSides has it, at these prices.
RoundTripSides(symbol) ==
    {side \in UNION {[1..m -> {<<Str(price), Str(qty)>> : price \in RoundTripPrices, qty \in 1..2}] :
                        m \in 0..maxLevels(symbol)} :
        \A i, j \in 1..Len(side) : i # j => side[i][1] # side[j][1]}

\* The snapshots of the exchange: every bid below every ask.
RoundTripSnapshots(symbol) ==
    {snapshot \in [lastUpdateId : {0}, bids : RoundTripSides(symbol),
                   asks : RoundTripSides(symbol)] :
        \A i \in 1..Len(snapshot.bids), j \in 1..Len(snapshot.asks) :
            snapshot.bids[i][1].val < snapshot.asks[j][1].val}

SideOf(orderBook, sideType) ==
    IF sideType = "bid" THEN orderBook.bids ELSE orderBook.asks

Absent(side, price) == \A i \in 1..Len(side) : side[i][1] # price

\* Whether a level at price would leave the bids below the asks.
Uncrossed(orderBook, sideType, price) ==
    IF sideType = "bid"
    THEN \A i \in 1..Len(orderBook.asks) : price < orderBook.asks[i][1]
    ELSE \A i \in 1..Len(orderBook.bids) : price > orderBook.bids[i][1]

\* The diff that continues the stream of key's replica with one entry on
\* one side.
OneEntryDiff(key, sideType, price, qty) ==
    [U |-> orderBooks[key].lastUpdateId + 1,
     u |-> orderBooks[key].lastUpdateId + 1,
     pu |-> IF key[2] = "futures" THEN orderBooks[key].lastUpdateId ELSE Undefined,
     b |-> IF sideType = "bid" THEN <<<<Str(price), Str(qty)>>>> ELSE <<>>,
     a |-> IF sideType = "ask" THEN <<<<Str(price), Str(qty)>>>> ELSE <<>>]

\* Whether noted is the note of a round trip at the given stage.
AtStage(stage) == "stage" \in DOMAIN noted /\ noted.stage = stage

\* The first snapshot of a pair.
InitializeRoundTrip ==
    /\ orderBooks = <<>>
    /\ \E key \in LevelKeys :
        \E snapshot \in RoundTripSnapshots(key[1]) :
            /\ initializeOrderBook(key[1], key[2], snapshot)
            /\ noted' = Nothing
            /\ UNCHANGED <<now, metricsVars, serviceVars, apiVars>>

\* applyUpdate with a diff of one entry (price, qty), qty > 0, for a side
\* that has no level at price; noted keeps the side as it was, and whether
\* updateSide's filter lets the entry through.
InsertLevel ==
    \E key \in DOMAIN orderBooks, sideType \in {"bid", "ask"},
       price \in RoundTripPrices, qty \in 1..2 :
        /\ ~AtStage("inserted")
        /\ orderBooks[key].lastUpdateId < MaxLevelId - 1
        /\ Absent(SideOf(orderBooks[key], sideType), price)
        /\ Uncrossed(orderBooks[key], sideType, price)
        /\ applyUpdate(key[1], key[2], OneEntryDiff(key, sideType, price, qty))
        /\ noted' = [stage |-> "inserted", sideType |-> sideType, price |-> price,
                     before |-> SideOf(orderBooks[key], sideType),
                     passes |-> PassesFilter(SideOf(orderBooks[key], sideType),
                                             <<<<Str(price), Str(qty)>>>>, sideType)]
        /\ UNCHANGED <<now, metricsVars, serviceVars, apiVars>>

\* applyUpdate with the diff (price, 0) that follows.
DeleteLevel ==
    /\ AtStage("inserted")
    /\ applyUpdate(last.key[1], last.key[2],
                   OneEntryDiff(last.key, noted.sideType, noted.price, 0))
    /\ noted' = [noted EXCEPT !.stage = "deleted"]
    /\ UNCHANGED <<now, metricsVars, serviceVars, apiVars>>

NextRoundTrip ==
    \/ InitializeRoundTrip
    \/ InsertLevel
    \/ DeleteLevel

SpecRoundTrip == Init /\ [][NextRoundTrip]_vars

----------------------------------------------------------------------------
(* The claim on the round trip of a level.                                 *)

\* The side of the round trip, as it is now.
RoundTripSide == SideOf(orderBooks[last.key], noted.sideType)

\* Whether the new price sorts before the last level of a side that is full.
PushesOut ==
    /\ Len(noted.before) = maxLevels(last.key[1])
    /\ IF noted.sideType = "bid"
       THEN noted.price > noted.before[Len(noted.before)][1]
       ELSE noted.price < noted.before[Len(noted.before)][1]

\* C30 as stated: after a diff that inserts (p, q), q > 0, at a price the
\* side does not hold, and the diff (p, 0), the side is as it was before
\* the two: p absent, every other level unchanged.
C30_InsertThenDeleteRestoresSide ==
    (AtStage("deleted") /\ noted.passes) => RoundTripSide = noted.before

\* C30 amended: after the two diffs p is absent again, and every other
\* level is as before unless the side was full (maxLevels levels) and p
\* sorted before its last level: then the insertion's truncation dropped
\* that last level, and the side is the one before without it.
C30_InsertThenDeleteRestoresUpToTruncation ==
    (AtStage("deleted") /\ noted.passes) =>
        /\ Absent(RoundTripSide, noted.price)
        /\ RoundTripSide = IF PushesOut
                           THEN SubSeq(noted.before, 1, Len(noted.before) - 1)
                           ELSE noted.before

\* C30 witness: the round trip is done on a full side of two levels, the
\* new price between the two.
C30_Witness ==
    /\ AtStage("deleted")
    /\ noted.passes
    /\ PushesOut
    /\ Len(noted.before) = 2
    /\ Len(RoundTripSide) = 1

----------------------------------------------------------------------------
(* First events: the diffs a futures replica meets after its snapshot,     *)
(* with the run of those that do not cover the snapshot counted.           *)

\* Longest run of diffs this specification lets a replica take.
MaxRun == 4

FirstKeys == {Key("BTCUSDT", "futures")}

\* Whether key's replica is as initializeOrderBook left it and the diff
\* fails U <= L + 1 <= u.
Uncovered(key, update) ==
    /\ ~orderBooks[key].hasReceivedUpdate
    /\ ~orderBooks[key].needsResync
    /\ ~(update.U <= orderBooks[key].lastUpdateId + 1
         /\ orderBooks[key].lastUpdateId + 1 <= update.u)

\* The run of uncovered diffs and the number of diffs since the snapshot.
Run(uncovered, diffs) == [uncovered |-> uncovered, diffs |-> diffs]

InitializeFirst ==
    \E key \in FirstKeys, snapshot \in SeqSnapshots :
        /\ initializeOrderBook(key[1], key[2], snapshot)
        /\ noted' = Run(0, 0)
        /\ UNCHANGED <<now, metricsVars, serviceVars, apiVars>>

ApplyUpdateFirst ==
    \E key \in FirstKeys \cap DOMAIN orderBooks :
        \E update \in SeqDiffs(key) :
            /\ noted.diffs < MaxRun
            /\ applyUpdate(key[1], key[2], update)
            /\ noted' = Run(IF Uncovered(key, update) THEN noted.uncovered + 1 ELSE 0,
                            noted.diffs + 1)
            /\ UNCHANGED <<now, metricsVars, serviceVars, apiVars>>

NextFirst ==
    \/ InitializeFirst
    \/ ApplyUpdateFirst

SpecFirst == Init /\ [][NextFirst]_vars

----------------------------------------------------------------------------
(* The claim on the first events of a futures replica.                     *)

\* C31: on a futures replica that has applied no diff since
\* initializeOrderBook, a diff that fails U <= L + 1 <= u is refused and
\* leaves the replica as it is, needsResync false, however many such diffs
\* came before it.
C31_UncoveredFirstDiffsDiscarded ==
    [][\A key \in DOMAIN orderBooks :
        (/\ ApplyStep(key)
         /\ key[2] = "futures"
         /\ ~orderBooks[key].hasReceivedUpdate
         /\ ~orderBooks[key].needsResync
         /\ ~(last'.U <= orderBooks[key].lastUpdateId + 1
              /\ orderBooks[key].lastUpdateId + 1 <= last'.u))
        => /\ ~last'.ret
           /\ orderBooks'[key] = orderBooks[key]
           /\ ~orderBooks'[key].needsResync]_vars

\* C31 witness: four diffs in a row failed the test, more than the three
\* soft failures a later event is allowed, the last one ahead of the
\* snapshot; the replica is still the snapshot's.
C31_Witness ==
    /\ last.op = "applyUpdate"
    /\ last.key \in DOMAIN orderBooks
    /\ "uncovered" \in DOMAIN noted
    /\ noted.uncovered >= 4
    /\ last.U > orderBooks[last.key].lastUpdateId + 1
    /\ ~last.ret
    /\ ~orderBooks[last.key].hasReceivedUpdate
    /\ ~orderBooks[last.key].needsResync
    /\ orderBooks[last.key].bids = <<<<2, 1>>>>

----------------------------------------------------------------------------
(* The claim on the confirmation of a subscription.                        *)

StatusKeys(this) ==
    {this.subscriptionStatus[i].key : i \in 1..Len(this.subscriptionStatus)}

\* The step is a message of the stream of key that handleOrderBookUpdate
\* applied.
LiveApplied(key) ==
    /\ noted'.op = "handleOrderBookUpdate"
    /\ noted'.key = key
    /\ noted'.ret = "true"

\* C32: the first diff that handleOrderBookUpdate applies for a key whose
\* status is not alive sets isAlive and removes the key's entry of the
\* failed list in that step; and isAlive becomes true in no other step, so
\* that a status is alive only after a live diff was applied.
C32_AliveByFirstLiveDiff ==
    [][\A key \in {noted'.key} \cup StatusKeys(websocketService') :
        /\ (LiveApplied(key) /\ ~IsAlive(websocketService, key))
            => /\ IsAlive(websocketService', key)
               /\ ~Has(websocketService'.failedSubs, key)
        /\ (~IsAlive(websocketService, key) /\ IsAlive(websocketService', key))
            => LiveApplied(key)]_vars

\* C32 witness: a live diff was applied, the key is alive, and the step
\* deleted the entry the key had in the failed list.
C32_Witness ==
    /\ noted.op = "handleOrderBookUpdate"
    /\ noted.ret = "true"
    /\ IsAlive(websocketService, noted.key)
    /\ noted.key \in noted.removed
    /\ ~Has(websocketService.failedSubs, noted.key)

----------------------------------------------------------------------------
(* The claims on a subscription that fails.                                *)

\* C33: when the snapshot request of a subscribeOrderBook call fails, the
\* stream is closed, the key is in the failed list, and no replica of the
\* key is readable, be it one of an earlier subscription (with a readable
\* replica the call would return true).
C33_FailedSnapshotLeavesNoReplica ==
    noted.op = "snapshotFailed" =>
        /\ \A id \in DOMAIN sockets :
               sockets[id].key = noted.key => sockets[id].readyState # "OPEN"
        /\ Has(websocketService.failedSubs, noted.key)
        /\ getOrderBook(noted.key[1], noted.key[2]) = Null

----------------------------------------------------------------------------
(* The claim on the messages of the combined stream.                       *)

\* The symbols in initializedSymbols of a combined stream that is open.
InitializedSymbols ==
    UNION {sockets[id].initialized :
              id \in {i \in DOMAIN sockets : /\ sockets[i].key = CombinedKey
                                             /\ sockets[i].readyState = "OPEN"}}

\* C34: a message of the combined stream reaches handleOrderBookUpdate, and
\* through it applyUpdate, only if its symbol is in initializedSymbols of
\* the connection; a message of a symbol that is not there yet changes no
\* replica, no status and no entry of the failed list.
C34_OnlyInitializedSymbolsApplied ==
    [][/\ noted'.op = "handleOrderBookUpdate" => noted'.key[1] \in InitializedSymbols
       /\ (last' # last /\ last'.op = "applyUpdate")
            => /\ noted'.op = "handleOrderBookUpdate"
               /\ last'.key = noted'.key
       /\ noted'.op = "dropped"
            => /\ noted'.key[1] \notin InitializedSymbols
               /\ UNCHANGED <<orderBooks, futuresFailureCount, websocketService>>]_vars

\* C34 witness: a message was left aside for a symbol that has a replica,
\* while another symbol of the stream is initialized and has applied a diff.
C34_Witness ==
    /\ noted.op = "dropped"
    /\ noted.key \in DOMAIN orderBooks
    /\ noted.key[1] \notin InitializedSymbols
    /\ \E symbol \in InitializedSymbols :
           /\ Key(symbol, "futures") \in DOMAIN orderBooks
           /\ orderBooks[Key(symbol, "futures")].hasReceivedUpdate

----------------------------------------------------------------------------
(* The claim on the sockets of a key.                                      *)

\* The open sockets of a key.
OpenSockets(key) ==
    {id \in DOMAIN sockets : sockets[id].key = key /\ sockets[id].readyState = "OPEN"}

\* C35: a key has at most one open socket, and every open socket is the
\* one this.connections holds under its key, with the ping timer of the
\* key: the close event of a socket that a new subscription replaced leaves
\* the registration of the new socket alone.
C35_OneTrackedSocketPerKey ==
    \A id \in DOMAIN sockets :
        sockets[id].readyState = "OPEN" =>
            /\ Cardinality(OpenSockets(sockets[id].key)) <= 1
            /\ sockets[id].key \in DOMAIN websocketService.connections
            /\ websocketService.connections[sockets[id].key] = id

----------------------------------------------------------------------------
(* Unsubscribe: one pair, subscribed at startup and unsubscribed through   *)
(* the route of the API, under the timer of startAutoRetry.                *)

\* POST /unsubscribe: websocketService.unsubscribeOrderBook(symbol, type),
\* for a pair that has a connection
UnsubscribeCall(keys) ==
    \E key \in keys :
        /\ key \in DOMAIN websocketService.connections
        /\ websocketService' = unsubscribeOrderBook(websocketService, key)
        /\ sockets' = Closing(sockets, websocketService.connections[key])
        /\ UNCHANGED <<managerVars, now, metricsVars, apiVars, waits, health>>
        /\ Note("unsubscribeOrderBook", key, "api")

NextUnsubscribe ==
    \/ \E id \in HealthSockets : DrainStep(id)
    \/ \E id \in HealthSockets : DrainDone(id)
    \/ ~Draining /\ Startup(HealthKeys, HealthSockets)
    \/ ~Draining /\ AutoRetry(HealthSockets) /\ BoundedService'
    \/ ~Draining /\ UnsubscribeCall(HealthKeys)
    \/ ~Draining /\ \E id \in HealthSockets : SocketOpen(id)
    \/ ~Draining /\ \E id \in HealthSockets : SnapshotReturns(id, BufferSnapshots)
    \/ ~Draining /\ \E id \in HealthSockets : SnapshotSaved(id)
    \/ ~Draining /\ \E id \in HealthSockets : SocketMessage(id, HealthDiffs(id))
    \/ ~Draining /\ \E id \in HealthSockets : SocketClose(id) /\ BoundedService'
    \/ ~Draining /\ WaitSucceeds
    \/ ~Draining /\ Advance(HealthSteps)

SpecUnsubscribe == InitService /\ [][NextUnsubscribe]_vars

----------------------------------------------------------------------------
(* The claim on unsubscribeOrderBook.                                      *)

\* C36: once unsubscribeOrderBook(key) has returned and the close event of
\* the socket it closed has been handled, the key has no connection, no
\* status and no entry in the failed list, so that no timer subscribes it
\* again.
C36_UnsubscribeIsFinal ==
    [][(/\ noted.op = "unsubscribeOrderBook"
        /\ noted.ret = "api"
        /\ noted'.op = "close"
        /\ noted'.key = noted.key)
       => /\ noted.key \notin DOMAIN websocketService'.connections
          /\ ~Has(websocketService'.subscriptionStatus, noted.key)
          /\ ~Has(websocketService'.failedSubs, noted.key)]_vars

----------------------------------------------------------------------------
(* Queue: pairs whose connection is refused, under the two timers, with    *)
(* the time that passes between two of their ticks.  The code compares     *)
(* differences of times only, so the clock is kept where it is and every   *)
(* time stamp is moved back instead; a stamp older than the largest        *)
(* interval the code tests stands for every older one.                     *)

QueueKeys == {Key("BTCUSDT", "spot"), Key("ETHUSDT", "spot")}

QueueSockets == {1}

\* The time between two looks at the timers: the smallest interval the code
\* tests, of which the others are multiples.
QueueStep == RetryDelay

\* The largest interval a test of the service reads: the window of the rate
\* limit.
Horizon == RateLimitWindow

Back(time) == IF time - QueueStep < now - Horizon THEN now - Horizon ELSE time - QueueStep

\* A timer or a timeout is due, or an event of a refused connection is
\* pending: it happens before more time passes.
Pending ==
    \/ now - health.autoAt >= AutoRetryInterval
    \/ health.pc = "idle" /\ now - health.at >= HealthCheckInterval
    \/ health.pc \in {"retry", "scan", "resync"}
    \/ \E wait \in waits : now - wait.start >= InitializationTimeout
    \/ sockets # <<>>

\* QueueStep milliseconds pass.
Elapse ==
    /\ ~Pending
    /\ websocketService' =
           [websocketService EXCEPT
               !.failedSubs = [i \in 1..Len(@) |-> [@[i] EXCEPT !.lastRetry = Back(@)]],
               !.connectionAttempts = [i \in 1..Len(@) |-> Back(@[i])],
               !.subscriptionStatus =
                   [i \in 1..Len(@) |->
                       [@[i] EXCEPT !.lastUpdate = Back(@),
                                    !.subscriptionTime = Back(@)]]]
    /\ waits' = {[wait EXCEPT !.start = Back(@)] : wait \in waits}
    /\ health' = [health EXCEPT !.at = Back(@), !.autoAt = Back(@)]
    /\ noted' = [noted EXCEPT
                    !.op = "elapse",
                    !.admitted = [i \in 1..Len(@) |-> Back(@[i])],
                    !.retried = [k \in DOMAIN @ |-> Back(@[k])]]
    /\ UNCHANGED <<managerVars, now, metricsVars, apiVars, sockets>>

\* The server refuses every connection: the socket closes before it opens.
NextQueue ==
    \/ Startup(QueueKeys, QueueSockets)
    \/ AutoRetry(QueueSockets)
    \/ HealthCheck
    \/ RetryFailed(QueueSockets)
    \/ ScanStatus
    \/ ScanReplicas
    \/ HealthCheckEnds
    \/ \E id \in QueueSockets : SocketClose(id)
    \/ WaitTimesOut
    \/ Elapse

\* Time passes and every due timer fires.
SpecQueue == InitService /\ [][NextQueue]_vars /\ WF_vars(NextQueue)

\* The step is a retry of the key by one of the two timers.
RetriedNow(key) ==
    /\ noted.op = "subscribeOrderBook"
    /\ noted.key = key
    /\ key \in DOMAIN noted.retried
    /\ noted.retried[key] = now

----------------------------------------------------------------------------
(* The claim on what subscribeOrderBook returns.                           *)

\* The socket that this.connections holds for the key has installed the
\* snapshot it fetched.
OwnSnapshotInstalled(key) ==
    /\ key \in DOMAIN websocketService.connections
    /\ websocketService.connections[key] \in DOMAIN sockets
    /\ sockets[websocketService.connections[key]].pc \in {"saving", "draining", "ready"}

\* C38: subscribeOrderBook returns true only if the socket of this call has
\* opened, fetched a snapshot and initialized the replica from it: a replica
\* that an earlier subscription of the key left readable does not make the
\* call return true.
C38_TrueOnlyAfterOwnSnapshot ==
    (noted.op = "subscribeOrderBook" /\ noted.ret = "true")
        => OwnSnapshotInstalled(noted.key)

----------------------------------------------------------------------------
(* The claim on the lock of triggerResync.                                 *)

\* C39: a resync that ends, with the replica installed or with its snapshot
\* request failed, leaves the key without the lock of resyncInProgress; after
\* one whose snapshot request failed the key is in the failed list and
\* getOrderBook has no replica for it.
C39_ResyncReleasesLock ==
    /\ noted.op \in {"resynced", "resyncFailed"}
            => noted.key \notin DOMAIN websocketService.resyncInProgress
    /\ noted.op = "resyncFailed"
            => /\ Has(websocketService.failedSubs, noted.key)
               /\ getOrderBook(noted.key[1], noted.key[2]) = Null

----------------------------------------------------------------------------
(* Resync: one spot pair whose stream stays open and delivers its diffs in *)
(* order, and whose snapshot requests all succeed.  The code compares the  *)
(* ids of a diff with the lastUpdateId of the replica only, and            *)
(* clearOrderBook forgets every id: the ids are counted anew at every      *)
(* installed snapshot, StreamHead being the id of the last diff the        *)
(* stream delivered before the replica was installed.                      *)

StreamHead == 2

\* Largest update id a replica reaches.
MaxStreamId == StreamHead + 2

\* The next diff of the stream: the one after StreamHead for a replica that
\* was just installed, the one after the replica's later on.
ResyncDiffs(id) ==
    LET key == sockets[id].key
        Diff(u) == [U |-> u, u |-> u, pu |-> Undefined,
                    b |-> <<<<Str(2), Str(2)>>>>, a |-> <<>>]
    IN  IF key \notin DOMAIN orderBooks THEN {Diff(StreamHead)}
        ELSE IF orderBooks[key].lastUpdateId < StreamHead THEN {Diff(StreamHead + 1)}
        ELSE IF orderBooks[key].lastUpdateId < MaxStreamId
             THEN {Diff(orderBooks[key].lastUpdateId + 1)}
        ELSE {}

\* What the depth endpoint answers: the book as of the last diff delivered
\* before the snapshot is installed, or the book one diff before it (the
\* stream delivered a diff after the book of the answer was taken).
ResyncSnapshots ==
    {[lastUpdateId |-> id, bids |-> <<<<Str(2), Str(1)>>>>, asks |-> <<<<Str(3), Str(1)>>>>] :
        id \in {StreamHead - 1, StreamHead}}

\* ws.on('message') of a socket whose buffer has been processed
StreamMessage(id) ==
    /\ id \in DOMAIN sockets
    /\ sockets[id].readyState = "OPEN"
    /\ sockets[id].pc = "ready"
    /\ publishOrderBookUpdate(sockets[id].key)
    /\ UNCHANGED apiVars
    /\ UNCHANGED <<now, sockets, waits, health>>
    /\ \E update \in ResyncDiffs(id) : handleOrderBookUpdate(sockets[id].key, update)
    /\ Note("handleOrderBookUpdate", sockets[id].key,
            IF last'.op = "applyUpdate" /\ last'.ret THEN "true" ELSE "false")

\* ws.on('message') of a socket that buffers
BufferMessage(id) ==
    /\ id \in DOMAIN sockets
    /\ sockets[id].pc # "ready"
    /\ SocketMessage(id, ResyncDiffs(id))

NextResync ==
    \/ \E id \in HealthSockets : DrainStep(id)
    \/ \E id \in HealthSockets : DrainDone(id)
    \/ ~Draining /\ Startup(HealthKeys, HealthSockets)
    \/ ~Draining /\ \E id \in HealthSockets : SocketOpen(id)
    \/ ~Draining /\ \E id \in HealthSockets : SnapshotReturns(id, ResyncSnapshots)
    \/ ~Draining /\ \E id \in HealthSockets : SnapshotSaved(id)
    \/ ~Draining /\ \E id \in HealthSockets : BufferMessage(id)
    \/ ~Draining /\ \E id \in HealthSockets : StreamMessage(id)
    \/ ~Draining /\ WaitSucceeds
    \/ ~Draining /\ ResyncSnapshotReturns(HealthKeys, ResyncSnapshots)
    \/ ~Draining /\ ResyncSaved(HealthKeys)

\* The stream keeps delivering and every request is answered.
SpecResync ==
    /\ InitService
    /\ [][NextResync]_vars
    /\ WF_vars(NextResync)
    /\ WF_vars(~Draining /\ \E id \in HealthSockets : StreamMessage(id))
    /\ WF_vars(~Draining /\ ResyncSnapshotReturns(HealthKeys, ResyncSnapshots))
    /\ WF_vars(~Draining /\ ResyncSaved(HealthKeys))

\* The replica of the key is flagged, or a resync of the key has cleared it
\* and not yet installed it again.
OutOfSync(key) ==
    \/ key \in DOMAIN orderBooks /\ orderBooks[key].needsResync
    \/ key \in DOMAIN websocketService.resyncInProgress /\ key \notin DOMAIN orderBooks

\* A live diff was applied to the replica of the key.
AppliedInSync(key) ==
    /\ noted.op = "handleOrderBookUpdate"
    /\ noted.key = key
    /\ noted.ret = "true"
    /\ key \in DOMAIN orderBooks
    /\ ~orderBooks[key].needsResync

====
